---- MODULE Spec2Model ----
(***************************************************************************)
(* Image synthesis (phase3/tools/testgen.py) and answer extraction         *)
(* (phase3/tools/testscan.py) of TurboTests.                                *)
(*                                                                         *)
(* Conventions of the model                                                *)
(*   - a canvas is a function row -> column -> intensity, image[y][x], as  *)
(*     the list of lists of the code;                                      *)
(*   - lengths in mm are integers counting hundredths of a millimetre, so   *)
(*     x_mm = 0.43 is 43;                                                   *)
(*   - a float that the code computes as a quotient of counts is an exact   *)
(*     rational <<n, d>> with d > 0; a confidence after round(.., 3) is an  *)
(*     integer number of thousandths.                                       *)
(***************************************************************************)
EXTENDS Integers, Sequences, FiniteSets, TLC

VARIABLES
  layout,   \* the template layout of the run
  order,    \* question_id -> correct_answer of the chosen test version
  image,    \* the canvas
  gen,      \* arguments of the last generate_test_image call, or NoCall
  draws,    \* number of drawing calls made directly on the canvas
  bubble,   \* last detect_bubble_fill call and what it returned, or NoCall
  marks,    \* last detect_registration_marks call and what it returned, or NoCall
  scan,     \* what extract_answers returned, or NoCall
  stage,    \* "canvas": the canvas is being produced; "done": it was read;
            \* "scanned": scan_image was called on the file;
            \* "synthetic": scan_synthetic made up a result
  file,     \* the image file on disk, or NoCall when there is none
  loaded,   \* last load_image call and what it returned or raised, or NoCall
  call,     \* last drawing call, its arguments and the canvas before it, or NoCall
  conv,     \* last millimetre-to-pixel conversion and its result, or NoCall
  graded,   \* last grading by the scorer and its result, or NoCall
  distort,  \* last apply_distortions call and the canvas before it, or NoCall
  runs      \* the runs of the synthesis command: arguments and canvas saved

vars == <<layout, order, image, gen, draws, bubble, marks, scan, stage,
          file, loaded, call, conv, graded, distort, runs>>

----------------------------------------------------------------------------
(* Bounds of the model *)

\* canvas of TestImageGenerator(width, height)
Width == 28
Height == 28
\* drawing calls made directly on the canvas
MaxDraws == 1

(* Constants of the program *)

White == 255
GeneratorDpi == 300
MarkValue == 0
OutlineValue == 0
PencilValue == 50
ScribbleValue == 80
DarkThreshold == 128
WhiteThreshold == 200
InkThreshold == 200
SearchRadius == 20
SearchStep == 5

NoCall == [called |-> FALSE]
Null == "null"

Rows == 0 .. (Height - 1)
Cols == 0 .. (Width - 1)

----------------------------------------------------------------------------
(* Rationals <<n, d>>, d > 0 *)

RLess(a, b) == a[1] * b[2] < b[1] * a[2]
RLeq(a, b) == a[1] * b[2] <= b[1] * a[2]
REq(a, b) == a[1] * b[2] = b[1] * a[2]
RMin(a, b) == IF RLess(b, a) THEN b ELSE a

\* round(q, 3), in thousandths (ties to even, as Python rounds)
Round3(q) ==
  LET k == (1000 * q[1]) \div q[2]
      rem == (1000 * q[1]) % q[2]
  IN  IF 2 * rem > q[2] THEN k + 1
      ELSE IF 2 * rem < q[2] THEN k
      ELSE IF k % 2 = 0 THEN k ELSE k + 1

\* The double-precision quotient mm * dpi / 25.4 falls just below the integer
\* it equals in exact arithmetic for these <<mm, dpi>>: all such inputs with
\* 0 <= mm <= 300.00 (two decimals) and dpi 96, 150 or 300.
FloatShortfall ==
  {<<635, 96>>, <<1270, 96>>, <<2540, 96>>, <<5080, 96>>, <<10160, 96>>, <<13335, 96>>,
   <<17145, 96>>, <<20320, 96>>, <<23495, 96>>, <<26670, 96>>,
   <<8382, 150>>, <<16764, 150>>, <<27178, 150>>,
   <<4191, 300>>, <<8382, 300>>, <<13589, 300>>, <<15367, 300>>, <<16764, 300>>,
   <<27178, 300>>, <<27559, 300>>}

\* int(mm * dpi / 25.4): the double quotient truncated towards zero; mm in hundredths
MmToPixels(mm, dpi) ==
  IF <<mm, dpi>> \in FloatShortfall THEN (mm * dpi) \div 2540 - 1
  ELSE IF mm * dpi >= 0 THEN (mm * dpi) \div 2540
  ELSE 0 - ((0 - mm * dpi) \div 2540)

\* TestImageGenerator.mm_to_pixels: the generator's own dpi
GenMmToPixels(mm) == MmToPixels(mm, GeneratorDpi)

----------------------------------------------------------------------------
(* Raster canvas: testgen.py *)

BlankImage == [y \in Rows |-> [x \in Cols |-> White]]

InCanvas(x, y) == x \in Cols /\ y \in Rows

\* the pixels the loops of draw_circle write
InCircleShape(px, py, x, y, radius, filled) ==
  LET dx == px - x
      dy == py - y
  IN  /\ dx \in (0 - radius) .. radius
      /\ dy \in (0 - radius) .. radius
      /\ dx * dx + dy * dy <= radius * radius
      /\ (filled \/ dx * dx + dy * dy >= (radius - 2) * (radius - 2))

\* faulty variant: no bounds check, so that a column left of the canvas is
\* counted from its right edge and a row above it from its bottom edge
DrawCircleWrapping(img, x, y, radius, filled, value) ==
  [py \in Rows |-> [px \in Cols |->
     IF \/ InCircleShape(px, py, x, y, radius, filled)
        \/ InCircleShape(px - Width, py, x, y, radius, filled)
        \/ InCircleShape(px, py - Height, x, y, radius, filled)
        \/ InCircleShape(px - Width, py - Height, x, y, radius, filled)
     THEN value ELSE img[py][px]]]

DrawCircle(img, x, y, radius, filled, value) ==
  [py \in Rows |-> [px \in Cols |->
     IF InCircleShape(px, py, x, y, radius, filled) THEN value ELSE img[py][px]]]

\* the pixels draw_rectangle writes: top and bottom rows, left and right columns
InRectangleOutline(px, py, x, y, w, h) ==
  \/ /\ px \in x .. (x + w - 1)
     /\ (py = y \/ py = y + h)
  \/ /\ py \in y .. (y + h - 1)
     /\ (px = x \/ px = x + w)

DrawRectangle(img, x, y, w, h, value) ==
  [py \in Rows |-> [px \in Cols |->
     IF InRectangleOutline(px, py, x, y, w, h) THEN value ELSE img[py][px]]]

InRectangle(px, py, x, y, w, h) ==
  px \in x .. (x + w - 1) /\ py \in y .. (y + h - 1)

FillRectangle(img, x, y, w, h, value) ==
  [py \in Rows |-> [px \in Cols |->
     IF InRectangle(px, py, x, y, w, h) THEN value ELSE img[py][px]]]

----------------------------------------------------------------------------
(* Bubble classifier: testscan.py *)

\* faulty variant: the sampled disk is grown by two pixels instead of shrunk
CheckRadiusGrown(radius) == radius + 2

\* max(1, radius - 2)
CheckRadius(radius) == IF radius - 2 > 1 THEN radius - 2 ELSE 1

\* the in-canvas pixels of the disk of radius rr around (cx, cy)
DiskPixels(cx, cy, rr) ==
  {p \in ((cx - rr) .. (cx + rr)) \X ((cy - rr) .. (cy + rr)) :
     /\ (p[1] - cx) * (p[1] - cx) + (p[2] - cy) * (p[2] - cy) <= rr * rr
     /\ InCanvas(p[1], p[2])}

DarkCount(img, pixels) == Cardinality({p \in pixels : img[p[2]][p[1]] < DarkThreshold})

\* is_filled = fill_ratio >= threshold, threshold = <<tn, td>>
IsFilled(dark, total, threshold) == dark * threshold[2] >= threshold[1] * total

\* faulty variant: the confidence of a filled bubble is its fill ratio
BubbleConfidenceOfRatio(filled, dark, total, threshold) ==
  LET q == <<dark * threshold[2], total * threshold[1]>>
  IN  IF filled THEN RMin(<<99, 100>>, <<dark, total>>)
      ELSE RMin(<<99, 100>>, <<q[2] - q[1], q[2]>>)

\* min(0.99, fill_ratio / threshold) or min(0.99, 1.0 - fill_ratio / threshold)
BubbleConfidence(filled, dark, total, threshold) ==
  LET q == <<dark * threshold[2], total * threshold[1]>>
  IN  IF filled THEN RMin(<<99, 100>>, q)
      ELSE RMin(<<99, 100>>, <<q[2] - q[1], q[2]>>)

\* the pixels detect_bubble_fill samples
SampledPixels(cx, cy, radius) == DiskPixels(cx, cy, CheckRadius(radius))

\* returns (is_filled, confidence)
DetectBubbleFill(img, cx, cy, radius, threshold) ==
  IF ~InCanvas(cx, cy)
  THEN [is_filled |-> FALSE, confidence |-> <<0, 1>>]
  ELSE LET pixels == SampledPixels(cx, cy, radius)
           total == Cardinality(pixels)
           dark == DarkCount(img, pixels)
           filled == IsFilled(dark, total, threshold)
       IN  IF total = 0
           THEN [is_filled |-> FALSE, confidence |-> <<0, 1>>]
           ELSE [is_filled |-> filled,
                 confidence |-> BubbleConfidence(filled, dark, total, threshold)]

\* threshold: float = 0.3
DefaultThreshold == <<3, 10>>

----------------------------------------------------------------------------
(* Registration locator: testscan.py *)

\* faulty variant: the white surround is measured on the disk's own radius
OuterRadiusSame(radius) == radius

\* int(radius * 1.5)
OuterRadius(radius) == (3 * radius) \div 2

AnnulusPixels(cx, cy, radius) ==
  LET o == OuterRadius(radius)
  IN  {p \in ((cx - o) .. (cx + o)) \X ((cy - o) .. (cy + o)) :
         LET d == (p[1] - cx) * (p[1] - cx) + (p[2] - cy) * (p[2] - cy)
         IN  /\ radius * radius < d
             /\ d <= o * o
             /\ InCanvas(p[1], p[2])}

WhiteCount(img, pixels) == Cardinality({p \in pixels : img[p[2]][p[1]] > WhiteThreshold})

\* dark_ratio * 0.7 + white_ratio * 0.3
MarkScore(dark, total, white, outer) ==
  IF outer > 0
  THEN <<7 * dark * outer + 3 * white * total, 10 * total * outer>>
  ELSE <<7 * dark, 10 * total>>

IsDarkCircle(img, cx, cy, radius) ==
  IF cx < radius \/ cy < radius \/ cx >= Width - radius \/ cy >= Height - radius
  THEN <<0, 1>>
  ELSE LET inner == DiskPixels(cx, cy, radius)
           ring == AnnulusPixels(cx, cy, radius)
       IN  IF Cardinality(inner) = 0 THEN <<0, 1>>
           ELSE MarkScore(DarkCount(img, inner), Cardinality(inner),
                          WhiteCount(img, ring), Cardinality(ring))

\* range(-search_radius, search_radius + 1, 5)
SearchOffsets ==
  [i \in 1 .. ((2 * SearchRadius) \div SearchStep + 1) |->
     (i - 1) * SearchStep - SearchRadius]

\* the candidates in the order of the two loops: dy outer, dx inner
SearchCandidates(ex, ey) ==
  LET n == Len(SearchOffsets)
  IN  [k \in 1 .. (n * n) |->
         [x |-> ex + SearchOffsets[((k - 1) % n) + 1],
          y |-> ey + SearchOffsets[((k - 1) \div n) + 1]]]

NoMatch == [found |-> FALSE, x |-> 0, y |-> 0, score |-> <<0, 1>>]

\* The search loop keeps a candidate when its score is strictly greater than
\* best_score, which starts at 0: it ends with the first candidate, in loop
\* order, whose score is the greatest, and with no match when every score is 0.
BestMatch(img, cands, radius) ==
  LET scored == {[k |-> k, score |-> IsDarkCircle(img, cands[k].x, cands[k].y, radius)] :
                   k \in DOMAIN cands}
      positive == {c \in scored : c.score[1] > 0}
      top == {c \in positive : \A d \in positive : RLeq(d.score, c.score)}
  IN  IF top = {} THEN NoMatch
      ELSE LET c == CHOOSE i \in top : \A j \in top : i.k <= j.k
           IN  [found |-> TRUE, x |-> cands[c.k].x, y |-> cands[c.k].y, score |-> c.score]

\* faulty variant: a best score of exactly 0.7 is accepted
MarkAcceptedFrom(best) == best.found /\ RLeq(<<7, 10>>, best.score)

\* best_match and best_match["score"] > 0.7
MarkAccepted(best) == best.found /\ RLess(<<7, 10>>, best.score)

DetectOneMark(img, mark, dpi) ==
  LET ex == MmToPixels(mark.x_mm, dpi)
      ey == MmToPixels(mark.y_mm, dpi)
      er == MmToPixels(mark.size_mm, dpi)
      best == BestMatch(img, SearchCandidates(ex, ey), er)
  IN  IF MarkAccepted(best)
      THEN [expected_x |-> ex, expected_y |-> ey, detected |-> TRUE,
            detected_x |-> best.x, detected_y |-> best.y, confidence |-> best.score]
      ELSE [expected_x |-> ex, expected_y |-> ey, detected |-> FALSE,
            detected_x |-> 0, detected_y |-> 0, confidence |-> <<0, 1>>]

DetectedCount(detected) ==
  Cardinality({i \in 1 .. Len(detected) : detected[i].detected})

\* success = at least 3 marks detected
RectSuccess(detected) == DetectedCount(detected) >= 3

DetectRegistrationMarks(img, expected, dpi) ==
  LET detected == [i \in 1 .. Len(expected) |-> DetectOneMark(img, expected[i], dpi)]
  IN  [detected_marks |-> detected, success |-> RectSuccess(detected)]

----------------------------------------------------------------------------
(* Extraction orchestrator: testscan.py, extract_answers *)

ChoiceTypes == {"multiple_choice", "true_false"}
TextTypes == {"short_answer", "essay"}

\* the loop over q_layout["answer_fields"]: filled_bubbles, extracted_answer, max_confidence
RECURSIVE ScanFields(_, _, _, _, _)
ScanFields(img, fields, dpi, k, acc) ==
  IF k > Len(fields) THEN acc
  ELSE LET fx == MmToPixels(fields[k].x_mm, dpi)
           fy == MmToPixels(fields[k].y_mm, dpi)
           radius == MmToPixels(fields[k].radius_mm, dpi)
           res == DetectBubbleFill(img, fx, fy, radius, DefaultThreshold)
       IN  ScanFields(img, fields, dpi, k + 1,
             IF ~res.is_filled THEN acc
             ELSE IF RLess(acc.max_confidence, res.confidence)
             THEN [extracted_answer |-> fields[k].label,
                   max_confidence |-> res.confidence,
                   filled_bubbles |-> acc.filled_bubbles + 1]
             ELSE [acc EXCEPT !.filled_bubbles = @ + 1])

\* faulty variant: the confidence of an ambiguous answer is left as it is
NotHalved(q) == q

\* max_confidence *= 0.5
Halved(q) == <<q[1], 2 * q[2]>>

\* faulty variant: a question without any filled bubble is not flagged
FlagsWithoutNoBubble(filled_bubbles) ==
  IF filled_bubbles > 1 THEN <<"multiple_bubbles_filled">> ELSE <<>>

\* the flags the bubble count of a choice question gives
ChoiceFlags(filled_bubbles) ==
  IF filled_bubbles > 1 THEN <<"multiple_bubbles_filled">>
  ELSE IF filled_bubbles = 0 THEN <<"no_bubble_filled">>
  ELSE <<>>

ChoiceAnswer(img, q, dpi) ==
  LET acc == ScanFields(img, q.answer_fields, dpi, 1,
                        [extracted_answer |-> Null, max_confidence |-> <<0, 1>>,
                         filled_bubbles |-> 0])
      flags == ChoiceFlags(acc.filled_bubbles)
      conf == IF acc.filled_bubbles > 1 THEN Halved(acc.max_confidence)
              ELSE IF acc.filled_bubbles = 0 THEN <<0, 1>>
              ELSE acc.max_confidence
  IN  [question_id |-> q.question_id,
       question_number |-> q.question_number,
       question_type |-> q.type,
       extracted_answer |-> acc.extracted_answer,
       confidence |-> Round3(conf),
       extraction_method |-> "bubble_detection",
       flags |-> flags]

\* the pixels the two range() loops of the OCR branch visit
OcrPixels(ox, oy, ow, oh) ==
  {p \in (ox .. (ox + ow - 1)) \X (oy .. (oy + oh - 1)) : InCanvas(p[1], p[2])}

InkCount(img, pixels) == Cardinality({p \in pixels : img[p[2]][p[1]] < InkThreshold})

\* faulty variant: any ink counts as writing
WritingDetectedByAnyInk(dark, total) == total > 0 /\ dark > 0

\* density > 0.05
WritingDetected(dark, total) == total > 0 /\ 20 * dark > total

TextAnswer(img, q, dpi) ==
  LET ox == MmToPixels(q.ocr_region.x_mm, dpi)
      oy == MmToPixels(q.ocr_region.y_mm, dpi)
      ow == MmToPixels(q.ocr_region.width_mm, dpi)
      oh == MmToPixels(q.ocr_region.height_mm, dpi)
      pixels == OcrPixels(ox, oy, ow, oh)
      total == Cardinality(pixels)
      dark == InkCount(img, pixels)
      written == WritingDetected(dark, total)
  IN  [question_id |-> q.question_id,
       question_number |-> q.question_number,
       question_type |-> q.type,
       extracted_answer |-> IF written THEN "[OCR text detected]" ELSE "",
       confidence |-> IF written THEN Round3(RMin(<<85, 100>>, <<5 * dark, total>>))
                      ELSE 900,
       extraction_method |-> "ocr_simulation",
       flags |-> IF written THEN <<"requires_manual_review">> ELSE <<>>]

\* faulty variant: free-text questions contribute no answer record
ChoiceAnswersOnly(img, q, dpi) ==
  IF q.type \in ChoiceTypes /\ q.has_answer_fields THEN <<ChoiceAnswer(img, q, dpi)>>
  ELSE <<>>

\* the answers one question layout record contributes: one or none
QuestionAnswers(img, q, dpi) ==
  IF q.type \in ChoiceTypes /\ q.has_answer_fields THEN <<ChoiceAnswer(img, q, dpi)>>
  ELSE IF q.type \in TextTypes /\ q.has_ocr_region THEN <<TextAnswer(img, q, dpi)>>
  ELSE <<>>

RECURSIVE AnswersFrom(_, _, _, _)
AnswersFrom(img, questions, dpi, k) ==
  IF k > Len(questions) THEN <<>>
  ELSE QuestionAnswers(img, questions[k], dpi) \o AnswersFrom(img, questions, dpi, k + 1)

RECURSIVE SumConfidence(_, _)
SumConfidence(answers, k) ==
  IF k > Len(answers) THEN 0 ELSE answers[k].confidence + SumConfidence(answers, k + 1)

RECURSIVE SumFlags(_, _)
SumFlags(answers, k) ==
  IF k > Len(answers) THEN 0 ELSE Len(answers[k].flags) + SumFlags(answers, k + 1)

\* Two confidences whose mean ends in 5 at the fourth decimal: round(.., 3)
\* returns the neighbour on whose side the double quotient lies.  For these
\* pairs of values, out of 0, 0.333, 0.495, 0.5, 0.85, 0.9 and 0.99, it is the
\* upper one, for the other pairs of them the lower one.
TieRoundsUp == {{0, 333}, {333, 850}, {333, 900}, {495, 900}}

\* round(sum(a["confidence"] for a in answers) / len(answers), 3)
MeanRound3(answers) ==
  LET total == SumConfidence(answers, 1)
      n == Len(answers)
  IN  IF 2 * (total % n) = n
      THEN IF {answers[i].confidence : i \in 1 .. n} \in TieRoundsUp
           THEN total \div n + 1
           ELSE total \div n
      ELSE Round3(<<total, 1000 * n>>)

\* faulty variant: answers of confidence 0 are left out of the mean
QualityMetricsOfScored(answers) ==
  LET scored == SelectSeq(answers, LAMBDA a : a.confidence > 0)
  IN  [overall_confidence |-> IF Len(scored) > 0 THEN MeanRound3(scored) ELSE 0,
       low_confidence_count |->
         Cardinality({i \in 1 .. Len(answers) : answers[i].confidence < 700}),
       flags_count |-> SumFlags(answers, 1)]

QualityMetrics(answers) ==
  [overall_confidence |-> IF Len(answers) > 0 THEN MeanRound3(answers) ELSE 0,
   low_confidence_count |->
     Cardinality({i \in 1 .. Len(answers) : answers[i].confidence < 700}),
   flags_count |-> SumFlags(answers, 1)]

\* faulty variant: without a successful rectification no answer is extracted
ExtractRectifiedOnly(img, lay, found) ==
  LET answers == IF found.success THEN AnswersFrom(img, lay.questions, lay.dpi, 1) ELSE <<>>
  IN  [called |-> TRUE,
       answers |-> answers,
       rectification |->
         [markers_detected |-> DetectedCount(found.detected_marks),
          markers_expected |-> Len(lay.registration_marks),
          rectification_applied |-> found.success],
       quality_metrics |-> QualityMetrics(answers)]

\* faulty variant: the fields are sampled where the first detected mark says
\* the sheet has moved to
ExtractWithOffsets(img, lay, found) ==
  LET hits == {i \in DOMAIN found.detected_marks : found.detected_marks[i].detected}
      first == IF hits = {} THEN 0 ELSE CHOOSE i \in hits : \A j \in hits : i <= j
      dx == IF first = 0 THEN 0
            ELSE found.detected_marks[first].detected_x - found.detected_marks[first].expected_x
      dy == IF first = 0 THEN 0
            ELSE found.detected_marks[first].detected_y - found.detected_marks[first].expected_y
      moved == [y \in Rows |-> [x \in Cols |->
                  IF InCanvas(x + dx, y + dy) THEN img[y + dy][x + dx] ELSE White]]
      answers == AnswersFrom(moved, lay.questions, lay.dpi, 1)
  IN  [called |-> TRUE,
       answers |-> answers,
       rectification |->
         [markers_detected |-> DetectedCount(found.detected_marks),
          markers_expected |-> Len(lay.registration_marks),
          rectification_applied |-> found.success],
       quality_metrics |-> QualityMetrics(answers)]

\* extract_answers after its call of detect_registration_marks, which returned found
ExtractWith(img, lay, found) ==
  LET answers == AnswersFrom(img, lay.questions, lay.dpi, 1)
  IN  [called |-> TRUE,
       answers |-> answers,
       rectification |->
         [markers_detected |-> DetectedCount(found.detected_marks),
          markers_expected |-> Len(lay.registration_marks),
          rectification_applied |-> found.success],
       quality_metrics |-> QualityMetrics(answers)]

ExtractAnswers(img, lay) ==
  ExtractWith(img, lay, DetectRegistrationMarks(img, lay.registration_marks, lay.dpi))

----------------------------------------------------------------------------
(* Image synthesizer: testgen.py, generate_test_image *)

RECURSIVE DrawMarks(_, _, _)
DrawMarks(img, expected, k) ==
  IF k > Len(expected) THEN img
  ELSE DrawMarks(DrawCircle(img, GenMmToPixels(expected[k].x_mm),
                            GenMmToPixels(expected[k].y_mm),
                            GenMmToPixels(expected[k].size_mm), TRUE, MarkValue),
                 expected, k + 1)

\* faulty variant: any entry for the question fills the field
IsAnswered(answers, qid, label) == qid \in DOMAIN answers

\* student_answer == field["label"]
IsStudentAnswer(answers, qid, label) == qid \in DOMAIN answers /\ answers[qid] = label

DrawField(img, field, qid, answers) ==
  IF field.field_type # "circle" THEN img
  ELSE LET fx == GenMmToPixels(field.x_mm)
           fy == GenMmToPixels(field.y_mm)
           radius == GenMmToPixels(field.radius_mm)
           outlined == DrawCircle(img, fx, fy, radius, FALSE, OutlineValue)
       IN  IF IsStudentAnswer(answers, qid, field.label)
           THEN DrawCircle(outlined, fx, fy, radius - 1, TRUE, PencilValue)
           ELSE outlined

RECURSIVE DrawFields(_, _, _, _, _)
DrawFields(img, fields, qid, answers, k) ==
  IF k > Len(fields) THEN img
  ELSE DrawFields(DrawField(img, fields[k], qid, answers), fields, qid, answers, k + 1)

\* for i in range(5): fill_rectangle(image, ox + 5 + i * 10, oy + oh // 2, 8, 2, value=80)
RECURSIVE DrawScribbles(_, _, _, _, _)
DrawScribbles(img, ox, oy, oh, i) ==
  IF i >= 5 THEN img
  ELSE DrawScribbles(FillRectangle(img, ox + 5 + i * 10, oy + (oh \div 2), 8, 2, ScribbleValue),
                     ox, oy, oh, i + 1)

DrawOcrRegion(img, q, answers) ==
  LET ox == GenMmToPixels(q.ocr_region.x_mm)
      oy == GenMmToPixels(q.ocr_region.y_mm)
      ow == GenMmToPixels(q.ocr_region.width_mm)
      oh == GenMmToPixels(q.ocr_region.height_mm)
      boxed == DrawRectangle(img, ox, oy, ow, oh, OutlineValue)
  IN  IF q.question_id \in DOMAIN answers THEN DrawScribbles(boxed, ox, oy, oh, 0)
      ELSE boxed

DrawQuestion(img, q, answers) ==
  IF q.has_answer_fields THEN DrawFields(img, q.answer_fields, q.question_id, answers, 1)
  ELSE IF q.has_ocr_region THEN DrawOcrRegion(img, q, answers)
  ELSE img

RECURSIVE DrawQuestions(_, _, _, _)
DrawQuestions(img, questions, answers, k) ==
  IF k > Len(questions) THEN img
  ELSE DrawQuestions(DrawQuestion(img, questions[k], answers), questions, answers, k + 1)

\* max(0, min(255, image[y][x] + noise)) at the perturbed pixels
AddNoise(img, noise) ==
  [y \in Rows |-> [x \in Cols |->
     IF <<x, y>> \in DOMAIN noise
     THEN LET v == img[y][x] + noise[<<x, y>>]
          IN  IF v < 0 THEN 0 ELSE IF v > White THEN White ELSE v
     ELSE img[y][x]]]

\* generate_test_image without its final _add_noise
DrawTest(lay, answers) ==
  DrawQuestions(DrawMarks(BlankImage, lay.registration_marks, 1), lay.questions, answers, 1)

GenerateTestImage(lay, answers, noise) == AddNoise(DrawTest(lay, answers), noise)

----------------------------------------------------------------------------
(* Template layouts and question orders of the model.  Lengths are chosen   *)
(* so that, at 300 dpi, they fall on the pixels named in the comments.      *)

Mark(x, y, size) == [x_mm |-> x, y_mm |-> y, size_mm |-> size]

\* four marks at pixels (3,3) (24,3) (3,24) (24,24)
CornerMarks(size) ==
  <<Mark(26, 26, size), Mark(204, 26, size), Mark(26, 204, size), Mark(204, 204, size)>>

\* four marks of radius 2 px touching the canvas border: (2,2) (25,2) (2,25) (25,25)
BorderMarks ==
  <<Mark(17, 17, 17), Mark(212, 17, 17), Mark(17, 212, 17), Mark(212, 212, 17)>>

Field(label, x, y, radius) ==
  [label |-> label, x_mm |-> x, y_mm |-> y, radius_mm |-> radius, field_type |-> "circle"]

NoRegion == [x_mm |-> 0, y_mm |-> 0, width_mm |-> 0, height_mm |-> 0]

ChoiceQuestion(id, number, type, fields) ==
  [question_id |-> id, type |-> type, question_number |-> number,
   has_answer_fields |-> TRUE, answer_fields |-> fields,
   has_ocr_region |-> FALSE, ocr_region |-> NoRegion]

\* bubbles of radius 5 px at (8,13) and (19,13)
BigChoice == ChoiceQuestion("q1", 1, "multiple_choice",
                           <<Field("A", 68, 111, 43), Field("B", 161, 111, 43)>>)

\* bubbles of radius 4 px at (8,13) and (19,13)
MediumChoice == ChoiceQuestion("q1", 1, "true_false",
                               <<Field("A", 68, 111, 34), Field("B", 161, 111, 34)>>)

\* bubbles of radius 3 px at (10,23) and (17,23)
SmallChoice == ChoiceQuestion("q2", 2, "multiple_choice",
                              <<Field("A", 85, 195, 26), Field("B", 144, 195, 26)>>)

\* OCR region at (8,1), 11 px wide and 5 px high
TextQuestion ==
  [question_id |-> "q3", type |-> "short_answer", question_number |-> 3,
   has_answer_fields |-> FALSE, answer_fields |-> <<>>,
   has_ocr_region |-> TRUE,
   ocr_region |-> [x_mm |-> 68, y_mm |-> 9, width_mm |-> 94, height_mm |-> 43]]

\* a choice question whose layout record carries no answer_fields
BareChoice ==
  [question_id |-> "q4", type |-> "multiple_choice", question_number |-> 4,
   has_answer_fields |-> FALSE, answer_fields |-> <<>>,
   has_ocr_region |-> FALSE, ocr_region |-> NoRegion]

\* page_info.width_mm and height_mm, in hundredths of a millimetre: the page
\* the generator's default canvas is meant for, ten pixels to the millimetre
\* ("2100 = 210mm")
PageWidthMm == 10 * Width
PageHeightMm == 10 * Height

Layout(dpi, expected, questions) ==
  [dpi |-> dpi, width_mm |-> PageWidthMm, height_mm |-> PageHeightMm,
   registration_marks |-> expected, questions |-> questions]

MarkSets == {<<>>, CornerMarks(9), CornerMarks(17), CornerMarks(26), BorderMarks}

QuestionLists ==
  {<<>>, <<BigChoice>>, <<MediumChoice>>, <<SmallChoice>>, <<TextQuestion>>,
   <<BigChoice, SmallChoice>>, <<BigChoice, TextQuestion>>, <<BareChoice, BigChoice>>}

\* sheets of marks alone, sheets of questions alone (registration_marks: []),
\* some with both, and three whose page_info.dpi is not the generator's
Layouts ==
  {Layout(GeneratorDpi, m, <<>>) : m \in MarkSets}
  \cup {Layout(GeneratorDpi, <<>>, q) : q \in QuestionLists}
  \cup {Layout(GeneratorDpi, CornerMarks(17), <<BigChoice>>),
        Layout(GeneratorDpi, CornerMarks(9), <<BigChoice>>)}
  \cup {Layout(150, CornerMarks(17), <<>>),
        Layout(150, <<>>, <<BigChoice>>),
        Layout(150, <<>>, <<BigChoice, TextQuestion>>)}

QuestionIds(lay) == {lay.questions[i].question_id : i \in 1 .. Len(lay.questions)}

QuestionById(lay, qid) ==
  CHOOSE q \in {lay.questions[i] : i \in 1 .. Len(lay.questions)} : q.question_id = qid

\* what a student may enter for a question
Entries(q) == IF q.has_answer_fields THEN {"A", "B"} ELSE {"text"}

\* question orders: the correct answer of every question of the layout, the
\* same label for every choice question
Orders(lay) ==
  {[qid \in QuestionIds(lay) |->
      IF QuestionById(lay, qid).has_answer_fields THEN label ELSE "text"] :
   label \in {"A", "B"}}

\* answer maps: an entry for some of the questions
AnswerMaps(lay) ==
  UNION {{a \in [ids -> {"A", "B", "text"}] :
            \A qid \in ids : a[qid] \in Entries(QuestionById(lay, qid))} :
         ids \in SUBSET QuestionIds(lay)}

----------------------------------------------------------------------------
(* Random noise: _add_noise perturbs pixels of the stride-5 grid.  A run of *)
(* the model perturbs no pixel or the one grid pixel (10,15), which lies     *)
(* inside bubble A of the big question, by the extreme offsets -intensity   *)
(* and +intensity.                                                          *)

NoiseIntensity == 10

StrideSites == {p \in Cols \X Rows : p[1] % 5 = 0 /\ p[2] % 5 = 0}

NoiseSites == {p \in StrideSites : p = <<10, 15>>}

NoNoise == [p \in {} |-> 0]

NoiseOutcomes(intensity) ==
  {NoNoise} \cup {[p \in {s} |-> d] : s \in NoiseSites, d \in {0 - intensity, intensity}}

----------------------------------------------------------------------------
(* Distortions.  Rotation angles are hundredths of a degree and skew        *)
(* factors ten-thousandths; cos and sin are scaled by TrigScale.            *)

AngleScale == 100
SkewScale == 10000
TrigScale == 10000000

\* cos(theta) and sin(theta) for theta = -angle * pi / 180
Trig(angle) ==
  CASE angle = 0 -> [cos |-> 10000000, sin |-> 0]
    [] angle = 5 -> [cos |-> 9999996, sin |-> 0 - 8727]
    [] angle = 0 - 5 -> [cos |-> 9999996, sin |-> 8727]
    [] angle = 10 -> [cos |-> 9999985, sin |-> 0 - 17453]
    [] angle = 11 -> [cos |-> 9999982, sin |-> 0 - 19199]
    [] angle = 200 -> [cos |-> 9993908, sin |-> 0 - 348995]
    [] angle = 0 - 200 -> [cos |-> 9993908, sin |-> 348995]

\* int(v) of a quotient: truncation towards zero
TruncDiv(n, d) == IF n >= 0 THEN n \div d ELSE 0 - ((0 - n) \div d)

Abs(v) == IF v < 0 THEN 0 - v ELSE v

\* src_x = int(tx * cos - ty * sin + cx), src_y = int(tx * sin + ty * cos + cy)
\* with tx = x - width / 2 and ty = y - height / 2
RotationSource(x, y, angle) ==
  LET t == Trig(angle)
      tx2 == 2 * x - Width
      ty2 == 2 * y - Height
  IN  <<TruncDiv(tx2 * t.cos - ty2 * t.sin + Width * TrigScale, 2 * TrigScale),
        TruncDiv(tx2 * t.sin + ty2 * t.cos + Height * TrigScale, 2 * TrigScale)>>

\* _apply_rotation: pixels whose source lies off the canvas become white
ApplyRotation(img, angle) ==
  [y \in Rows |-> [x \in Cols |->
     LET s == RotationSource(x, y, angle)
     IN  IF InCanvas(s[1], s[2]) THEN img[s[2]][s[1]] ELSE White]]

\* shift = int(skew * (y - height / 2))
SkewShift(y, skew) == TruncDiv(skew * (2 * y - Height), 2 * SkewScale)

\* _apply_skew: row y is moved right by its shift
ApplySkew(img, skew) ==
  [y \in Rows |-> [x \in Cols |->
     LET src_x == x - SkewShift(y, skew)
     IN  IF src_x >= 0 /\ src_x < Width THEN img[y][src_x] ELSE White]]

\* faulty variant: every non-zero angle rotates
RotationAppliesAlways(rotation) == rotation # 0

\* abs(rotation) > 0.1
RotationApplies(rotation) == 10 * Abs(rotation) > AngleScale

\* abs(skew) > 0.001
SkewApplies(skew) == 1000 * Abs(skew) > SkewScale

\* apply_distortions(image, rotation, skew, noise_level); noise is what the
\* random source makes _add_noise do
ApplyDistortions(img, rotation, skew, noise_level, noise) ==
  LET rotated == IF RotationApplies(rotation) THEN ApplyRotation(img, rotation) ELSE img
      skewed == IF SkewApplies(skew) THEN ApplySkew(rotated, skew) ELSE rotated
  IN  IF noise_level > 0 THEN AddNoise(skewed, noise) ELSE skewed

----------------------------------------------------------------------------
(* Operations *)

EmptyLayout == Layout(GeneratorDpi, <<>>, <<>>)

\* no file written, nothing loaded, drawn, converted, graded, distorted or run yet
Untouched ==
  /\ file = NoCall
  /\ loaded = NoCall
  /\ call = NoCall
  /\ conv = NoCall
  /\ graded = NoCall
  /\ distort = NoCall
  /\ runs = {}

Init ==
  /\ layout \in Layouts
  /\ order \in Orders(layout)
  /\ image = BlankImage
  /\ gen = NoCall
  /\ draws = 0
  /\ bubble = NoCall
  /\ marks = NoCall
  /\ scan = NoCall
  /\ stage = "canvas"
  /\ Untouched

\* generate_test_image(student, version, layout, order, answers, add_noise)
Generate(answers, add_noise, noise) ==
  /\ stage = "canvas"
  /\ file = NoCall
  /\ ~gen.called
  /\ draws = 0
  /\ ~distort.called
  /\ image' = GenerateTestImage(layout, answers, noise)
  /\ gen' = [called |-> TRUE, answers |-> answers, add_noise |-> add_noise]
  /\ UNCHANGED <<layout, order, draws, bubble, marks, scan, stage,
               file, loaded, call, conv, distort, runs, graded>>

\* draw_circle called on the canvas by the caller
DrawCircleCall(x, y, radius, filled, value) ==
  /\ stage = "canvas"
  /\ file = NoCall
  /\ draws < MaxDraws
  /\ image' = DrawCircle(image, x, y, radius, filled, value)
  /\ draws' = draws + 1
  /\ call' = [called |-> TRUE, op |-> "draw_circle", x |-> x, y |-> y, w |-> radius,
              h |-> radius, filled |-> filled, value |-> value, before |-> image]
  /\ UNCHANGED <<layout, order, gen, bubble, marks, scan, stage,
               file, loaded, conv, distort, runs, graded>>

\* fill_rectangle called on the canvas by the caller
FillRectangleCall(x, y, w, h, value) ==
  /\ stage = "canvas"
  /\ file = NoCall
  /\ draws < MaxDraws
  /\ image' = FillRectangle(image, x, y, w, h, value)
  /\ draws' = draws + 1
  /\ call' = [called |-> TRUE, op |-> "fill_rectangle", x |-> x, y |-> y, w |-> w,
              h |-> h, filled |-> TRUE, value |-> value, before |-> image]
  /\ UNCHANGED <<layout, order, gen, bubble, marks, scan, stage,
               file, loaded, conv, distort, runs, graded>>

\* draw_rectangle called on the canvas by the caller
DrawRectangleCall(x, y, w, h, value) ==
  /\ stage = "canvas"
  /\ file = NoCall
  /\ draws < MaxDraws
  /\ image' = DrawRectangle(image, x, y, w, h, value)
  /\ draws' = draws + 1
  /\ call' = [called |-> TRUE, op |-> "draw_rectangle", x |-> x, y |-> y, w |-> w,
              h |-> h, filled |-> FALSE, value |-> value, before |-> image]
  /\ UNCHANGED <<layout, order, gen, bubble, marks, scan, stage,
               file, loaded, conv, distort, runs, graded>>

\* extract_answers(image, template_layout); marks keeps its detected_marks
Extract ==
  /\ stage = "canvas"
  /\ LET found == DetectRegistrationMarks(image, layout.registration_marks, layout.dpi)
     IN  /\ scan' = ExtractWith(image, layout, found)
         /\ marks' = [called |-> TRUE, dpi |-> layout.dpi, result |-> found]
  /\ stage' = "done"
  /\ UNCHANGED <<layout, order, image, gen, draws, bubble,
               file, loaded, call, conv, distort, runs, graded>>

\* detect_bubble_fill(image, cx, cy, radius, threshold)
DetectBubble(cx, cy, radius, threshold) ==
  /\ stage = "canvas"
  /\ bubble' = [called |-> TRUE, cx |-> cx, cy |-> cy, radius |-> radius,
                threshold |-> threshold,
                result |-> DetectBubbleFill(image, cx, cy, radius, threshold)]
  /\ stage' = "done"
  /\ UNCHANGED <<layout, order, image, gen, draws, marks, scan,
               file, loaded, call, conv, distort, runs, graded>>

\* what a caller draws over a synthesized sheet: a black disk over bubble A
\* or bubble B of the big question, white-out over a corner mark
Smudges ==
  {[x |-> 8, y |-> 13, radius |-> 5, value |-> 0],
   [x |-> 19, y |-> 13, radius |-> 5, value |-> 0],
   [x |-> 3, y |-> 3, radius |-> 4, value |-> White],
   [x |-> 24, y |-> 24, radius |-> 4, value |-> White]}

Next ==
  \/ \E a \in AnswerMaps(layout) : Generate(a, FALSE, NoNoise)
  \/ \E a \in AnswerMaps(layout), n \in NoiseOutcomes(NoiseIntensity) : Generate(a, TRUE, n)
  \/ \E s \in Smudges : DrawCircleCall(s.x, s.y, s.radius, TRUE, s.value)
  \/ Extract

Spec == Init /\ [][Next]_vars

----------------------------------------------------------------------------
(* The bubble classifier on hand-painted canvases *)

InitBubble ==
  /\ layout = EmptyLayout
  /\ order \in Orders(layout)
  /\ image = BlankImage
  /\ gen = NoCall
  /\ draws = 0
  /\ bubble = NoCall
  /\ marks = NoCall
  /\ scan = NoCall
  /\ stage = "canvas"
  /\ Untouched

PaintCentres == {<<13, 13>>, <<15, 13>>, <<0, 0>>}
PaintRadii == {0, 1, 3, 5, 6}
PaintValues == {OutlineValue, PencilValue, DarkThreshold}

ProbeCentres == {<<13, 13>>, <<0, 0>>, <<27, 27>>, <<-1, 13>>}
ProbeRadii == {0, 1, 2, 3, 5, 6, 7}
Thresholds == {DefaultThreshold, <<1, 2>>}

NextBubble ==
  \/ \E c \in PaintCentres, r \in PaintRadii, f \in BOOLEAN, v \in PaintValues :
       DrawCircleCall(c[1], c[2], r, f, v)
  \/ FillRectangleCall(0, 0, 13, Height, PencilValue)
  \/ \E c \in ProbeCentres, r \in ProbeRadii, t \in Thresholds :
       DetectBubble(c[1], c[2], r, t)

SpecBubble == InitBubble /\ [][NextBubble]_vars

----------------------------------------------------------------------------
(* Image files: save_compact and save_pgm of testgen.py, load_image and     *)
(* scan_image of testscan.py.  A file is its suffix, whether its text       *)
(* parses (json.load, int()), and what the text holds: for the sparse       *)
(* format width, height and the list of [x, y, value] triples, for PGM the  *)
(* magic token and the rows of numbers.                                     *)

\* image[y][x] < 255, in the order of the loops: y outer, x inner
NonWhite(img) == {k \in 0 .. (Width * Height - 1) : img[k \div Width][k % Width] < White}

CompactPixels(img) ==
  LET dark == NonWhite(img)
      at == {<<Cardinality({j \in dark : j <= k}), k>> : k \in dark}
  IN  [i \in 1 .. Cardinality(dark) |->
         LET k == (CHOOSE e \in at : e[1] = i)[2]
         IN  <<k % Width, k \div Width, img[k \div Width][k % Width]>>]

SaveCompact(img) ==
  [suffix |-> ".json", parsable |-> TRUE, magic |-> "", width |-> Width,
   height |-> Height, pixels |-> CompactPixels(img), rows |-> <<>>]

SavePgm(img) ==
  [suffix |-> ".pgm", parsable |-> TRUE, magic |-> "P2", width |-> Width,
   height |-> Height, pixels |-> <<>>,
   rows |-> [i \in 1 .. Height |-> [j \in 1 .. Width |-> img[i - 1][j - 1]]]]

Raised(error) == [called |-> TRUE, ok |-> FALSE, error |-> error, image |-> <<>>]

Returned(img) == [called |-> TRUE, ok |-> TRUE, error |-> "", image |-> img]

\* image[y][x] = value: an index in -n .. n-1 is accepted, a negative one
\* counting from the end of the list
ListIndexOk(i, n) == (0 - n) <= i /\ i < n

ListIndex(i, n) == IF i < 0 THEN i + n ELSE i

\* faulty variant: the triple is read as [y, x, value]
TripleTargetSwapped(t, w, h) == <<ListIndex(t[2], h), ListIndex(t[1], w)>>

\* the pixel a triple of the sparse file is written to
TripleTarget(t, w, h) == <<ListIndex(t[1], w), ListIndex(t[2], h)>>

LoadSparse(f) ==
  IF \E i \in DOMAIN f.pixels :
       ~(ListIndexOk(f.pixels[i][1], f.width) /\ ListIndexOk(f.pixels[i][2], f.height))
  THEN Raised("IndexError")
  ELSE LET written == {TripleTarget(f.pixels[i], f.width, f.height) : i \in DOMAIN f.pixels}
           hits(x, y) == {i \in DOMAIN f.pixels :
                            TripleTarget(f.pixels[i], f.width, f.height) = <<x, y>>}
           last(x, y) == CHOOSE i \in hits(x, y) : \A j \in hits(x, y) : j <= i
       IN  Returned([y \in 0 .. (f.height - 1) |-> [x \in 0 .. (f.width - 1) |->
                       IF <<x, y>> \in written THEN f.pixels[last(x, y)][3] ELSE White]])

LoadPgm(f) ==
  IF f.magic # "P2" THEN Raised("ValueError")
  ELSE IF ~f.parsable THEN Raised("ValueError")
  ELSE Returned([y \in 0 .. (Len(f.rows) - 1) |->
                   [x \in 0 .. (Len(f.rows[y + 1]) - 1) |-> f.rows[y + 1][x + 1]]])

\* faulty variant: a file of another format is read as an empty page
LoadImageLenient(f) ==
  IF f.suffix = ".json"
  THEN IF ~f.parsable THEN Raised("JSONDecodeError") ELSE LoadSparse(f)
  ELSE IF f.suffix = ".pgm" THEN LoadPgm(f)
  ELSE Returned(BlankImage)

\* load_image(image_path)
LoadImage(f) ==
  IF f.suffix = ".json"
  THEN IF ~f.parsable THEN Raised("JSONDecodeError") ELSE LoadSparse(f)
  ELSE IF f.suffix = ".pgm" THEN LoadPgm(f)
  ELSE Raised("ValueError")

\* a file someone else wrote
SparseFile(pixels) ==
  [suffix |-> ".json", parsable |-> TRUE, magic |-> "", width |-> Width,
   height |-> Height, pixels |-> pixels, rows |-> <<>>]

GivenFiles ==
  {SparseFile(<<t>>) : t \in {<<Width, 3, 0>>, <<3, Height, 0>>, <<0 - 1, 3, 0>>,
                             <<3, 0 - 1, 0>>, <<0 - Width - 1, 3, 0>>, <<3, 3, 0>>}}
  \cup {SparseFile(<<<<8, 13, 0>>, <<8, 13, 100>>, <<9, 13, White>>>>),
        SparseFile(<<<<9, 2, 0>>, <<10, 2, 100>>, <<11, 2, 150>>, <<12, 3, 199>>,
                     <<13, 3, InkThreshold>>>>),
        SparseFile(<<<<9, 2, 0>>, <<10, 2, 199>>, <<11, 2, InkThreshold>>>>),
        [SparseFile(<<>>) EXCEPT !.parsable = FALSE],
        [SparseFile(<<>>) EXCEPT !.suffix = ".png"],
        [SavePgm(BlankImage) EXCEPT !.magic = "P5"],
        [SavePgm(BlankImage) EXCEPT !.parsable = FALSE],
        [SavePgm(BlankImage) EXCEPT !.suffix = ".PGM"]}

\* save_compact(image, filename)
SaveCompactCall ==
  /\ stage = "canvas"
  /\ file = NoCall
  /\ file' = [called |-> TRUE, by |-> "save_compact", data |-> SaveCompact(image)]
  /\ UNCHANGED <<layout, order, image, gen, draws, bubble, marks, scan, stage,
               loaded, call, conv, distort, runs, graded>>

\* save_pgm(image, filename)
SavePgmCall ==
  /\ stage = "canvas"
  /\ file = NoCall
  /\ file' = [called |-> TRUE, by |-> "save_pgm", data |-> SavePgm(image)]
  /\ UNCHANGED <<layout, order, image, gen, draws, bubble, marks, scan, stage,
               loaded, call, conv, distort, runs, graded>>

\* an image file that the synthesizer did not write is put in place
GiveFile(f) ==
  /\ stage = "canvas"
  /\ file = NoCall
  /\ image = BlankImage
  /\ file' = [called |-> TRUE, by |-> "user", data |-> f]
  /\ UNCHANGED <<layout, order, image, gen, draws, bubble, marks, scan, stage,
               loaded, call, conv, distort, runs, graded>>

\* load_image(image_path)
LoadImageCall ==
  /\ stage = "canvas"
  /\ file # NoCall
  /\ loaded' = LoadImage(file.data)
  /\ stage' = "done"
  /\ UNCHANGED <<layout, order, image, gen, draws, bubble, marks, scan,
               file, call, conv, distort, runs, graded>>

\* scan_image(image_path, template_layout): load_image, then extract_answers
\* on what it returned; what load_image raises is raised again
ScanImageCall ==
  /\ stage = "canvas"
  /\ file # NoCall
  /\ loaded' = LoadImage(file.data)
  /\ IF loaded'.ok
     THEN LET found == DetectRegistrationMarks(loaded'.image, layout.registration_marks,
                                               layout.dpi)
          IN  /\ scan' = ExtractWith(loaded'.image, layout, found)
              /\ marks' = [called |-> TRUE, dpi |-> layout.dpi, result |-> found]
     ELSE UNCHANGED <<scan, marks>>
  /\ stage' = "scanned"
  /\ UNCHANGED <<layout, order, image, gen, draws, bubble, file, call, conv, distort, runs, graded>>

FileLayouts ==
  {Layout(GeneratorDpi, <<>>, <<BigChoice>>), Layout(GeneratorDpi, <<>>, <<TextQuestion>>)}

InitFile ==
  /\ layout \in FileLayouts
  /\ order \in Orders(layout)
  /\ image = BlankImage
  /\ gen = NoCall
  /\ draws = 0
  /\ bubble = NoCall
  /\ marks = NoCall
  /\ scan = NoCall
  /\ stage = "canvas"
  /\ Untouched

\* what is drawn over a sheet before it is saved: light grey, white, black
FilePaints ==
  {[x |-> 8, y |-> 13, radius |-> 3, value |-> 254],
   [x |-> 8, y |-> 13, radius |-> 3, value |-> White],
   [x |-> 0, y |-> 27, radius |-> 2, value |-> 0]}

NextFile ==
  \/ \E a \in AnswerMaps(layout) : Generate(a, FALSE, NoNoise)
  \/ \E s \in FilePaints : DrawCircleCall(s.x, s.y, s.radius, TRUE, s.value)
  \/ SaveCompactCall
  \/ SavePgmCall
  \/ \E f \in GivenFiles : GiveFile(f)
  \/ LoadImageCall
  \/ ScanImageCall

SpecFile == InitFile /\ [][NextFile]_vars

----------------------------------------------------------------------------
(* Conversions on their own: _mm_to_pixels of the scanner and mm_to_pixels  *)
(* of the generator, applied to lengths and resolutions.                    *)

\* _mm_to_pixels(mm, dpi)
ConvertScanner(mm, dpi) ==
  /\ conv' = [called |-> TRUE, by |-> "testscan", mm |-> mm, dpi |-> dpi,
              result |-> MmToPixels(mm, dpi)]
  /\ UNCHANGED <<layout, order, image, gen, draws, bubble, marks, scan, stage,
               file, loaded, call, distort, runs, graded>>

\* mm_to_pixels(mm)
ConvertGenerator(mm) ==
  /\ conv' = [called |-> TRUE, by |-> "testgen", mm |-> mm, dpi |-> GeneratorDpi,
              result |-> GenMmToPixels(mm)]
  /\ UNCHANGED <<layout, order, image, gen, draws, bubble, marks, scan, stage,
               file, loaded, call, distort, runs, graded>>

\* lengths in hundredths of a millimetre: the multiples of 1.27 mm up to two
\* inches, 10 mm, and the sides of an A4 page
MmInputs == {127 * k : k \in 0 .. 40} \cup {1000, 21000, 29700}

DpiInputs == {96, 150, GeneratorDpi}

InitMm ==
  /\ layout = EmptyLayout
  /\ order \in Orders(layout)
  /\ image = BlankImage
  /\ gen = NoCall
  /\ draws = 0
  /\ bubble = NoCall
  /\ marks = NoCall
  /\ scan = NoCall
  /\ stage = "canvas"
  /\ Untouched

NextMm ==
  \/ \E mm \in MmInputs, dpi \in DpiInputs : ConvertScanner(mm, dpi)
  \/ \E mm \in MmInputs : ConvertGenerator(mm)

SpecMm == InitMm /\ [][NextMm]_vars

----------------------------------------------------------------------------
(* The synthesis command (testgen main) and apply_distortions               *)

\* runs of the synthesis command
MaxRuns == 2

\* The random source of one run is one of NumStreams streams.  A stream
\* fixes every draw of the run: whether random.random() < accuracy holds
\* for the questions, and what the two _add_noise passes perturb.
NumStreams == 6

StreamRight(stream) == stream % 2 = 0

StreamNoise(stream, pass, intensity) ==
  LET k == ((stream \div 2) + pass) % 3
  IN  IF k = 0 THEN NoNoise
      ELSE CHOOSE n \in NoiseOutcomes(intensity) :
             \E p \in DOMAIN n : n[p] = (IF k = 1 THEN 0 - intensity ELSE intensity)

\* random.seed(s) makes the stream a function of s
SeededStream(seed) == (5 * seed + 1) % NumStreams

NoSeed == [given |-> FALSE, value |-> 0]

SeedArg(value) == [given |-> TRUE, value |-> value]

\* if args.seed: random.seed(args.seed)
SeedApplied(seed) == seed.given /\ seed.value # 0

\* streams a run may draw from
RunStreams(seed) ==
  IF SeedApplied(seed) THEN {SeededStream(seed.value)} ELSE 0 .. (NumStreams - 1)

\* random.choice(wrong_options), or "Wrong Answer" for a question without options
WrongAnswer(q, correct_answer) ==
  IF q.has_answer_fields THEN CHOOSE label \in {"A", "B"} : label # correct_answer
  ELSE "Wrong Answer"

\* the answers dictionary main builds for a student
DrawnAnswers(lay, ord, stream) ==
  [qid \in QuestionIds(lay) |->
     IF StreamRight(stream) THEN ord[qid] ELSE WrongAnswer(QuestionById(lay, qid), ord[qid])]

\* generate_test_image(..., add_noise=True) then apply_distortions(...)
SynthesizedImage(lay, ord, rotation, skew, noise_level, stream) ==
  LET drawn == GenerateTestImage(lay, DrawnAnswers(lay, ord, stream),
                                 StreamNoise(stream, 0, NoiseIntensity))
  IN  ApplyDistortions(drawn, rotation, skew, noise_level,
                       StreamNoise(stream, 1, noise_level))

\* one run of the synthesis command for one student
RunSynthesis(seed, rotation, skew, noise_level) ==
  /\ stage = "canvas"
  /\ Cardinality(runs) < MaxRuns
  /\ \E stream \in RunStreams(seed) :
       runs' = runs \cup
         {[seed |-> seed, rotation |-> rotation, skew |-> skew, noise |-> noise_level,
           image |-> SynthesizedImage(layout, order, rotation, skew, noise_level, stream)]}
  /\ UNCHANGED <<layout, order, image, gen, draws, bubble, marks, scan, stage,
               file, loaded, call, conv, distort, graded>>

\* apply_distortions called on the canvas by the caller
DistortCall(rotation, skew, noise_level, noise) ==
  /\ stage = "canvas"
  /\ file = NoCall
  /\ ~distort.called
  /\ image' = ApplyDistortions(image, rotation, skew, noise_level, noise)
  /\ distort' = [called |-> TRUE, rotation |-> rotation, skew |-> skew,
                 noise_level |-> noise_level, before |-> image]
  /\ UNCHANGED <<layout, order, gen, draws, bubble, marks, scan, stage,
               file, loaded, call, conv, runs, graded>>

SeedLayouts ==
  {Layout(GeneratorDpi, CornerMarks(17), <<BigChoice>>),
   Layout(GeneratorDpi, <<>>, <<BigChoice, TextQuestion>>)}

SeedArgs == {NoSeed, SeedArg(0), SeedArg(1), SeedArg(2)}

InitSeed ==
  /\ layout \in SeedLayouts
  /\ order \in Orders(layout)
  /\ image = BlankImage
  /\ gen = NoCall
  /\ draws = 0
  /\ bubble = NoCall
  /\ marks = NoCall
  /\ scan = NoCall
  /\ stage = "canvas"
  /\ Untouched

NextSeed ==
  \E seed \in SeedArgs, rotation \in {0, 200} :
    RunSynthesis(seed, rotation, 0, NoiseIntensity)

SpecSeed == InitSeed /\ [][NextSeed]_vars

\* the synthesis command run with and without --noise 0
NextNoise ==
  \E seed \in {NoSeed, SeedArg(1)}, noise_level \in {0, NoiseIntensity} :
    RunSynthesis(seed, 0, 0, noise_level)

SpecNoise == InitSeed /\ [][NextNoise]_vars

----------------------------------------------------------------------------
(* The template layout of docgen, synthesized and read back *)

\* _generate_template_layout: a mark at the same distance from each page
\* corner (0.26 mm from the edges here, pixel 3 at 300 dpi), all of one size
TemplateMarks(width_mm, height_mm) ==
  <<Mark(26, 26, 17), Mark(width_mm - 26, 26, 17),
    Mark(26, height_mm - 26, 17), Mark(width_mm - 26, height_mm - 26, 17)>>

\* page_info.dpi is config["scanning"]["dpi"], 300 unless configured
TemplateLayouts ==
  {Layout(dpi, TemplateMarks(PageWidthMm, PageHeightMm), q) :
     dpi \in {GeneratorDpi, 150},
     q \in {<<>>, <<BigChoice>>, <<BigChoice, TextQuestion>>}}

InitTemplate ==
  /\ layout \in TemplateLayouts
  /\ order \in Orders(layout)
  /\ image = BlankImage
  /\ gen = NoCall
  /\ draws = 0
  /\ bubble = NoCall
  /\ marks = NoCall
  /\ scan = NoCall
  /\ stage = "canvas"
  /\ Untouched

NextTemplate ==
  \/ \E a \in AnswerMaps(layout) : Generate(a, FALSE, NoNoise)
  \/ \E a \in AnswerMaps(layout), n \in NoiseOutcomes(NoiseIntensity) : Generate(a, TRUE, n)
  \/ Extract

SpecTemplate == InitTemplate /\ [][NextTemplate]_vars

----------------------------------------------------------------------------
(* The drawing primitives called with shapes partly or wholly off the canvas *)

DrawLayouts == {Layout(GeneratorDpi, CornerMarks(17), <<BigChoice>>)}

InitDraw ==
  /\ layout \in DrawLayouts
  /\ order \in Orders(layout)
  /\ image = BlankImage
  /\ gen = NoCall
  /\ draws = 0
  /\ bubble = NoCall
  /\ marks = NoCall
  /\ scan = NoCall
  /\ stage = "canvas"
  /\ Untouched

\* centres on the canvas, on its edges and corners, and off it
CircleCentres ==
  {<<13, 13>>, <<27, 27>>, <<0 - 2, 5>>, <<30, 13>>, <<8, 0 - 1>>, <<0 - 10, 0 - 10>>}

\* <<x, y, width, height>>: inside, across each edge, over the whole canvas
\* and beyond, off the canvas
Boxes ==
  {<<5, 5, 6, 4>>, <<0 - 3, 0 - 3, 8, 8>>, <<24, 24, 8, 8>>, <<0, 0, Width, Height>>,
   <<0 - 1, 0 - 1, Width + 2, Height + 2>>, <<40, 40, 5, 5>>}

DrawValues == {0, White}

NextDraw ==
  \/ \E a \in AnswerMaps(layout) : Generate(a, FALSE, NoNoise)
  \/ \E c \in CircleCentres, filled \in BOOLEAN, value \in DrawValues :
       DrawCircleCall(c[1], c[2], 3, filled, value)
  \/ \E b \in Boxes, value \in DrawValues : DrawRectangleCall(b[1], b[2], b[3], b[4], value)
  \/ \E b \in Boxes, value \in DrawValues : FillRectangleCall(b[1], b[2], b[3], b[4], value)

SpecDraw == InitDraw /\ [][NextDraw]_vars

----------------------------------------------------------------------------
(* apply_distortions called on synthesized sheets *)

DistortLayouts ==
  {Layout(GeneratorDpi, CornerMarks(17), <<BigChoice>>),
   Layout(GeneratorDpi, <<>>, <<BigChoice, TextQuestion>>),
   Layout(GeneratorDpi, BorderMarks, <<>>)}

InitDistort ==
  /\ layout \in DistortLayouts
  /\ order \in Orders(layout)
  /\ image = BlankImage
  /\ gen = NoCall
  /\ draws = 0
  /\ bubble = NoCall
  /\ marks = NoCall
  /\ scan = NoCall
  /\ stage = "canvas"
  /\ Untouched

\* hundredths of a degree: none, below, at and just above 0.1, and 2 degrees
Rotations == {0, 5, 0 - 5, 10, 11, 200, 0 - 200}

\* ten-thousandths: none, below, at and just above 0.001, and 0.05, 0.1
Skews == {0, 5, 0 - 5, 10, 11, 500, 0 - 1000}

NextDistort ==
  \/ \E a \in AnswerMaps(layout) : Generate(a, FALSE, NoNoise)
  \/ \E rotation \in Rotations, skew \in Skews : DistortCall(rotation, skew, 0, NoNoise)
  \/ \E rotation \in Rotations, skew \in Skews, n \in NoiseOutcomes(NoiseIntensity) :
       DistortCall(rotation, skew, NoiseIntensity, n)

SpecDistort == InitDistort /\ [][NextDistort]_vars

----------------------------------------------------------------------------
(* scan_synthetic: a scan result made up from the question order.  Its time *)
(* stamps are left out.                                                     *)

\* an essay question: a free-text question that is not a short answer
EssayQuestion ==
  [question_id |-> "q5", type |-> "essay", question_number |-> 5,
   has_answer_fields |-> FALSE, answer_fields |-> <<>>,
   has_ocr_region |-> TRUE,
   ocr_region |-> [x_mm |-> 68, y_mm |-> 9, width_mm |-> 94, height_mm |-> 43]]

\* what _simulate_ocr_error may do to the text: nothing (no error drawn, or
\* a replacement that finds no letter), upper(), a blank appended, the last
\* letter cut
OcrErrors == {"none", "upper", "blank", "cut"}

SimulateOcrError(text, error) ==
  IF text # "text" \/ error = "none" THEN text
  ELSE IF error = "upper" THEN "TEXT"
  ELSE IF error = "blank" THEN "text "
  ELSE "tex"

\* the draws made for one question: random.random() < accuracy, the end of
\* the interval random.uniform falls on, the OCR error
SyntheticDraws == [right : BOOLEAN, high : BOOLEAN, error : OcrErrors]

\* random.random() lies in [0, 1): accuracy 1.0 always passes, 0.0 never
DrawAllowed(accuracy, d) ==
  /\ (accuracy >= 1000 => d.right)
  /\ (accuracy <= 0 => ~d.right)

\* random.choice over the labels of the other options
OtherOption(correct_answer) == CHOOSE label \in {"A", "B"} : label # correct_answer

\* faulty variant: a choice answer is the other option even when the draw
\* says it is read correctly
SyntheticChoiceInverted(q, correct_answer, d) ==
  [question_id |-> q.question_id,
   question_number |-> q.question_number,
   question_type |-> q.type,
   extracted_answer |-> OtherOption(correct_answer),
   confidence |-> IF d.high THEN 950 ELSE 700,
   extraction_method |-> "bubble_detection",
   flags |-> <<>>]

\* the multiple_choice / true_false branch; the record has no "flags" key,
\* which every reader takes as no flags
SyntheticChoice(q, correct_answer, d) ==
  [question_id |-> q.question_id,
   question_number |-> q.question_number,
   question_type |-> q.type,
   extracted_answer |-> IF d.right THEN correct_answer ELSE OtherOption(correct_answer),
   confidence |-> IF d.right THEN (IF d.high THEN 990 ELSE 850)
                  ELSE (IF d.high THEN 950 ELSE 700),
   extraction_method |-> "bubble_detection",
   flags |-> <<>>]

\* the short_answer branch
SyntheticShort(q, correct_answer, d) ==
  [question_id |-> q.question_id,
   question_number |-> q.question_number,
   question_type |-> q.type,
   extracted_answer |-> IF d.right THEN correct_answer
                        ELSE SimulateOcrError(correct_answer, d.error),
   confidence |-> IF d.right THEN (IF d.high THEN 950 ELSE 750)
                  ELSE (IF d.high THEN 850 ELSE 600),
   extraction_method |-> "ocr",
   flags |-> <<>>]

\* essay or other
SyntheticOther(q) ==
  [question_id |-> q.question_id,
   question_number |-> q.question_number,
   question_type |-> q.type,
   extracted_answer |-> "[OCR text would be here]",
   confidence |-> 0,
   extraction_method |-> "ocr",
   flags |-> <<"manual_review_required">>]

SyntheticAnswer(q, correct_answer, d) ==
  IF q.type \in ChoiceTypes THEN SyntheticChoice(q, correct_answer, d)
  ELSE IF q.type = "short_answer" THEN SyntheticShort(q, correct_answer, d)
  ELSE SyntheticOther(q)

\* the loop over template_layout["questions"]: a question that the version's
\* question list does not hold is passed over
RECURSIVE SyntheticAnswers(_, _, _, _)
SyntheticAnswers(questions, ord, draws_of, k) ==
  IF k > Len(questions) THEN <<>>
  ELSE IF questions[k].question_id \notin DOMAIN ord
       THEN SyntheticAnswers(questions, ord, draws_of, k + 1)
       ELSE <<SyntheticAnswer(questions[k], ord[questions[k].question_id], draws_of[k])>>
              \o SyntheticAnswers(questions, ord, draws_of, k + 1)

\* scan_synthetic(student_id, version_id, template_layout, question_order, accuracy);
\* known: question_order["versions"] holds version_id
ScanSynthetic(known, accuracy, draws_of, skew_angle) ==
  /\ stage = "canvas"
  /\ \A k \in DOMAIN draws_of : DrawAllowed(accuracy, draws_of[k])
  /\ LET ord == IF known THEN order ELSE [qid \in {} |-> "A"]
         answers == SyntheticAnswers(layout.questions, ord, draws_of, 1)
     IN  scan' = [called |-> TRUE,
                  known |-> known,
                  accuracy |-> accuracy,
                  answers |-> answers,
                  rectification |->
                    [markers_detected |-> 4, markers_expected |-> 4,
                     rectification_applied |-> TRUE, skew_angle |-> skew_angle],
                  quality_metrics |-> QualityMetrics(answers)]
  /\ stage' = "synthetic"
  /\ UNCHANGED <<layout, order, image, gen, draws, bubble, marks,
               file, loaded, call, conv, distort, runs, graded>>

SyntheticLayouts ==
  {Layout(GeneratorDpi, <<>>, q) :
     q \in {<<BigChoice>>, <<BigChoice, TextQuestion>>, <<BigChoice, EssayQuestion>>,
            <<TextQuestion, EssayQuestion>>, <<BigChoice, SmallChoice>>}}

\* the version's question list holds some of the layout's questions
SyntheticOrders(lay) ==
  {[qid \in ids |-> o[qid]] : o \in Orders(lay), ids \in SUBSET QuestionIds(lay)}

\* accuracy in thousandths
Accuracies == {0, 950, 1000}

InitSynthetic ==
  /\ layout \in SyntheticLayouts
  /\ order \in SyntheticOrders(layout)
  /\ image = BlankImage
  /\ gen = NoCall
  /\ draws = 0
  /\ bubble = NoCall
  /\ marks = NoCall
  /\ scan = NoCall
  /\ stage = "canvas"
  /\ Untouched

NextSynthetic ==
  \E known \in BOOLEAN, accuracy \in Accuracies,
     draws_of \in [DOMAIN layout.questions -> SyntheticDraws],
     skew_angle \in {0 - 200, 200} :
    ScanSynthetic(known, accuracy, draws_of, skew_angle)

SpecSynthetic == InitSynthetic /\ [][NextSynthetic]_vars

----------------------------------------------------------------------------
(* The scorer's letter grades: scorer.py.  Percentages are rationals.       *)

\* GRADING_SCALE, in the order of the dictionary; min and max in hundredths
GradingScale ==
  <<[grade |-> "A", min |-> 9000, max |-> 10000],
    [grade |-> "B", min |-> 8000, max |-> 8999],
    [grade |-> "C", min |-> 7000, max |-> 7999],
    [grade |-> "D", min |-> 6000, max |-> 6999],
    [grade |-> "F", min |-> 0, max |-> 5999]>>

\* range_data["min"] <= percentage <= range_data["max"]
InBand(percentage, band) ==
  RLeq(<<band.min, 100>>, percentage) /\ RLeq(percentage, <<band.max, 100>>)

\* _calculate_letter_grade: the first band that holds the percentage, else "F"
CalculateLetterGrade(percentage) ==
  LET hits == {i \in DOMAIN GradingScale : InBand(percentage, GradingScale[i])}
  IN  IF hits = {} THEN "F"
      ELSE GradingScale[CHOOSE i \in hits : \A j \in hits : i <= j].grade

\* _calculate_letter_grade(percentage), percentage in thousandths
GradeCall(p) ==
  /\ graded' = [called |-> TRUE, by |-> "_calculate_letter_grade",
                percentage |-> <<p, 1000>>,
                letter_grade |-> CalculateLetterGrade(<<p, 1000>>)]
  /\ UNCHANGED <<layout, order, image, gen, draws, bubble, marks, scan, stage,
               file, loaded, call, conv, distort, runs>>

\* the summary of score_scan: percentage = earned / possible * 100, or 0
\* when no point is possible, and its letter grade
ScoreSummaryCall(earned, possible) ==
  /\ earned <= possible
  /\ LET percentage == IF possible > 0 THEN <<100 * earned, possible>> ELSE <<0, 1>>
     IN  graded' = [called |-> TRUE, by |-> "score_scan", percentage |-> percentage,
                    letter_grade |-> CalculateLetterGrade(percentage)]
  /\ UNCHANGED <<layout, order, image, gen, draws, bubble, marks, scan, stage,
               file, loaded, call, conv, distort, runs>>

\* percentages in thousandths: every half point, and around each band edge
Percentages ==
  {500 * k : k \in 0 .. 200}
  \cup {e + d : e \in {60000, 70000, 80000, 90000}, d \in {0 - 10, 0 - 5, 0 - 1, 0, 1}}
  \cup {99999}

PointsPossible == {0, 1, 3, 10, 20000}

PointsEarned == {0, 1, 2, 3, 6, 7, 8, 9, 10, 11999, 17999, 20000}

InitGrade ==
  /\ layout = EmptyLayout
  /\ order \in Orders(layout)
  /\ image = BlankImage
  /\ gen = NoCall
  /\ draws = 0
  /\ bubble = NoCall
  /\ marks = NoCall
  /\ scan = NoCall
  /\ stage = "canvas"
  /\ Untouched

NextGrade ==
  \/ \E p \in Percentages : GradeCall(p)
  \/ \E possible \in PointsPossible, earned \in PointsEarned :
       ScoreSummaryCall(earned, possible)

SpecGrade == InitGrade /\ [][NextGrade]_vars

----------------------------------------------------------------------------
(* generate_test_image with answer maps that name no field of a question *)

FillLayouts ==
  {Layout(GeneratorDpi, <<>>, q) :
     q \in {<<BigChoice>>, <<MediumChoice>>, <<SmallChoice>>, <<BigChoice, SmallChoice>>,
            <<BigChoice, TextQuestion>>}}
  \cup {Layout(GeneratorDpi, CornerMarks(9), <<BigChoice>>)}

\* an entry for some of the questions: a label of the question, the label
\* of no field, or main's "Wrong Answer"
FillAnswerMaps(lay) ==
  UNION {[ids -> {"A", "B", "C", "Wrong Answer"}] : ids \in SUBSET QuestionIds(lay)}

InitFill ==
  /\ layout \in FillLayouts
  /\ order \in Orders(layout)
  /\ image = BlankImage
  /\ gen = NoCall
  /\ draws = 0
  /\ bubble = NoCall
  /\ marks = NoCall
  /\ scan = NoCall
  /\ stage = "canvas"
  /\ Untouched

NextFill == \E a \in FillAnswerMaps(layout) : Generate(a, FALSE, NoNoise)

SpecFill == InitFill /\ [][NextFill]_vars

----------------------------------------------------------------------------
(* Properties *)

Range(seq) == {seq[i] : i \in DOMAIN seq}

\* the answer records of the scan result that carry a question id
AnswersOf(qid) == {a \in Range(scan.answers) : a.question_id = qid}

\* the verdict of the classifier on one answer field at its layout position
FieldVerdict(f) ==
  DetectBubbleFill(image, MmToPixels(f.x_mm, layout.dpi), MmToPixels(f.y_mm, layout.dpi),
                   MmToPixels(f.radius_mm, layout.dpi), DefaultThreshold)

FilledFields(q) == {k \in DOMAIN q.answer_fields : FieldVerdict(q.answer_fields[k]).is_filled}

ScannedChoice(q) == q.type \in ChoiceTypes /\ q.has_answer_fields

\* a synthesized sheet with every answer correct, no noise, nothing drawn over it
PerfectSheet ==
  /\ gen.called
  /\ gen.answers = order
  /\ ~gen.add_noise
  /\ draws = 0

(* C1: a sheet synthesized with every answer correct and without noise,     *)
(* rotation or skew, read back with the same layout, gives for every        *)
(* question of the order its correct_answer with confidence >= 0.85.        *)
C1_RoundTripRecoversEveryAnswer ==
  (scan.called /\ PerfectSheet) =>
    \A qid \in DOMAIN order :
      \E a \in AnswersOf(qid) :
        a.extracted_answer = order[qid] /\ a.confidence >= 850

(* C2: a choice question none of whose answer fields is judged filled gets  *)
(* extracted_answer null, confidence 0 and the flag no_bubble_filled.       *)
C2_NoBubbleFilled ==
  scan.called =>
    \A q \in Range(layout.questions) :
      (ScannedChoice(q) /\ FilledFields(q) = {}) =>
        /\ AnswersOf(q.question_id) # {}
        /\ \A a \in AnswersOf(q.question_id) :
             /\ a.extracted_answer = Null
             /\ a.confidence = 0
             /\ "no_bubble_filled" \in Range(a.flags)

\* a synthesized sheet was read and one of its choice questions had no field filled
C2_Witness ==
  /\ scan.called
  /\ gen.called
  /\ \E q \in Range(layout.questions) : ScannedChoice(q) /\ FilledFields(q) = {}

(* C3: with several fields judged filled the answer is the label of a       *)
(* filled field of greatest classifier confidence, the confidence is that   *)
(* confidence times 0.5 and the flag multiple_bubbles_filled is attached;   *)
(* with exactly one field filled the confidence is the classifier's and no  *)
(* flag is attached.                                                        *)
C3_MultipleBubblesFilled ==
  scan.called =>
    \A q \in Range(layout.questions) :
      (ScannedChoice(q) /\ FilledFields(q) # {}) =>
        /\ AnswersOf(q.question_id) # {}
        /\ \A a \in AnswersOf(q.question_id) :
             \E k \in FilledFields(q) :
               LET conf == FieldVerdict(q.answer_fields[k]).confidence
               IN  /\ a.extracted_answer = q.answer_fields[k].label
                   /\ \A j \in FilledFields(q) :
                        RLeq(FieldVerdict(q.answer_fields[j]).confidence, conf)
                   /\ IF Cardinality(FilledFields(q)) > 1
                      THEN /\ a.confidence = Round3(<<conf[1], 2 * conf[2]>>)
                           /\ a.flags = <<"multiple_bubbles_filled">>
                      ELSE /\ a.confidence = Round3(conf)
                           /\ a.flags = <<>>

\* a sheet was read on which a question had two fields filled
C3_Witness ==
  /\ scan.called
  /\ \E q \in Range(layout.questions) :
       /\ ScannedChoice(q)
       /\ Cardinality(FilledFields(q)) > 1
       /\ \E a \in AnswersOf(q.question_id) : a.confidence = 495

\* a sheet was read on which a question had exactly one field filled
C3_WitnessSingle ==
  /\ scan.called
  /\ \E q \in Range(layout.questions) :
       ScannedChoice(q) /\ Cardinality(FilledFields(q)) = 1

\* the in-canvas pixels within distance d of the probed centre
ProbePixels(d) ==
  {p \in Cols \X Rows :
     (p[1] - bubble.cx) * (p[1] - bubble.cx) + (p[2] - bubble.cy) * (p[2] - bubble.cy) <= d * d}

ProbeDark(d) == Cardinality({p \in ProbePixels(d) : image[p[2]][p[1]] < 128})

ProbeShrunk == IF bubble.radius - 2 >= 1 THEN bubble.radius - 2 ELSE 1

\* the canvas holds nothing but the printed outline of the probed bubble
OutlineOnly ==
  image = DrawCircle(BlankImage, bubble.cx, bubble.cy, bubble.radius, FALSE, OutlineValue)

(* C4: detect_bubble_fill returns is_filled = true exactly when the dark    *)
(* fraction of the in-canvas pixels within distance max(1, r-2) of the      *)
(* centre is at least the threshold, and the printed outline ring is not    *)
(* sampled: a bubble of which only the outline is printed is not filled.    *)
(* A half-dark bubble at threshold 0.3 is filled.                           *)
C4_FillRatioOverInterior ==
  bubble.called =>
    LET total == Cardinality(ProbePixels(ProbeShrunk))
        dark == ProbeDark(ProbeShrunk)
    IN  /\ total > 0 =>
             (bubble.result.is_filled <=>
                dark * bubble.threshold[2] >= bubble.threshold[1] * total)
        /\ OutlineOnly => ~bubble.result.is_filled

\* the confidence the classifier gives the probed bubble on a canvas of one value
UniformConfidence(value) ==
  DetectBubbleFill([y \in Rows |-> [x \in Cols |-> value]], bubble.cx, bubble.cy,
                   bubble.radius, bubble.threshold).confidence

\* fill_ratio lies within 0.1 of the threshold, on the side given
Borderline(dark, total, above) ==
  LET t == bubble.threshold
  IN  IF above
      THEN /\ dark * t[2] >= t[1] * total
           /\ 10 * dark * t[2] <= (10 * t[1] + t[2]) * total
      ELSE /\ dark * t[2] < t[1] * total
           /\ 10 * dark * t[2] >= (10 * t[1] - t[2]) * total

(* C5: the confidence measures the distance of fill_ratio from the          *)
(* threshold under both verdicts: a bubble judged filled whose fill_ratio   *)
(* is within 0.1 above the threshold has a lower confidence than a          *)
(* completely dark bubble, and a bubble judged unfilled whose fill_ratio is *)
(* within 0.1 below the threshold has a lower confidence than a white one.  *)
C5_ConfidenceMeasuresDistance ==
  (bubble.called /\ InCanvas(bubble.cx, bubble.cy)) =>
    LET total == Cardinality(ProbePixels(ProbeShrunk))
        dark == ProbeDark(ProbeShrunk)
    IN  /\ (bubble.result.is_filled /\ Borderline(dark, total, TRUE)) =>
             RLess(bubble.result.confidence, UniformConfidence(0))
        /\ (~bubble.result.is_filled /\ Borderline(dark, total, FALSE)) =>
             RLess(bubble.result.confidence, UniformConfidence(White))

\* every in-canvas pixel of the disk of the probed radius is at most 50
InteriorDark == \A p \in ProbePixels(bubble.radius) : image[p[2]][p[1]] <= 50

ConfidentVerdict(filled) ==
  /\ bubble.result.is_filled = filled
  /\ RLess(<<8, 10>>, bubble.result.confidence)

ClearCutProbe ==
  /\ bubble.called
  /\ bubble.threshold = <<3, 10>>
  /\ InCanvas(bubble.cx, bubble.cy)

(* C6 as stated: for every radius and every centre on the canvas, at the    *)
(* threshold 0.3, a bubble whose interior is all <= 50 is filled with       *)
(* confidence > 0.8 and a bubble on an all-white canvas is unfilled with    *)
(* confidence > 0.8.                                                        *)
C6_ClearCutEveryRadius ==
  ClearCutProbe =>
    /\ InteriorDark => ConfidentVerdict(TRUE)
    /\ image = BlankImage => ConfidentVerdict(FALSE)

(* C6 amended: the same for every radius of at least one pixel; on the      *)
(* all-white canvas it holds for every radius.                              *)
C6_ClearCutBubbles ==
  ClearCutProbe =>
    /\ (bubble.radius >= 1 /\ InteriorDark) => ConfidentVerdict(TRUE)
    /\ image = BlankImage => ConfidentVerdict(FALSE)

\* a bubble of radius >= 3 with a dark interior, next to white paper, was probed
C6_Witness ==
  /\ ClearCutProbe
  /\ bubble.radius >= 3
  /\ InteriorDark
  /\ \E p \in Cols \X Rows : image[p[2]][p[1]] = White
  /\ ConfidentVerdict(TRUE)

\* an all-white canvas was probed
C6_WitnessWhite == ClearCutProbe /\ image = BlankImage /\ ConfidentVerdict(FALSE)

\* pixel position and radius the scanner expects mark i at
ExpectedMark(i) ==
  LET m == layout.registration_marks[i]
  IN  [x |-> MmToPixels(m.x_mm, layout.dpi),
       y |-> MmToPixels(m.y_mm, layout.dpi),
       r |-> MmToPixels(m.size_mm, layout.dpi)]

MarkIndices == DOMAIN layout.registration_marks

InMark(p, i) ==
  LET e == ExpectedMark(i)
  IN  (p[1] - e.x) * (p[1] - e.x) + (p[2] - e.y) * (p[2] - e.y) <= e.r * e.r

\* four black disks at the expected positions, fully inside the canvas, on
\* white, every disk clear of the surround (1.5 radii) of every other disk
MarksDrawnExactly ==
  /\ Len(layout.registration_marks) = 4
  /\ \A p \in Cols \X Rows :
       image[p[2]][p[1]] = IF \E i \in MarkIndices : InMark(p, i) THEN 0 ELSE White
  /\ \A i \in MarkIndices :
       LET e == ExpectedMark(i)
       IN  /\ e.x - e.r >= 0 /\ e.x + e.r <= Width - 1
           /\ e.y - e.r >= 0 /\ e.y + e.r <= Height - 1
  /\ \A i, j \in MarkIndices :
       i # j =>
         LET a == ExpectedMark(i)
             b == ExpectedMark(j)
         IN  4 * ((a.x - b.x) * (a.x - b.x) + (a.y - b.y) * (a.y - b.y))
               > (3 * a.r + 2 * b.r) * (3 * a.r + 2 * b.r)

AllMarksDetected ==
  /\ Len(marks.result.detected_marks) = 4
  /\ \A i \in 1 .. 4 : marks.result.detected_marks[i].detected
  /\ marks.result.success

(* C7 as stated: four marks drawn as filled black disks of the expected     *)
(* radius at their exact expected positions, fully inside an otherwise      *)
(* white canvas and well separated, are all detected, and success is true.  *)
C7_DrawnMarksDetected ==
  (marks.called /\ MarksDrawnExactly) => AllMarksDetected

(* C7 amended: the same when the expected radius of every mark is at least  *)
(* 2 pixels.                                                                *)
C7_DrawnMarksOfTwoPixelsDetected ==
  (marks.called /\ MarksDrawnExactly /\ \A i \in MarkIndices : ExpectedMark(i).r >= 2)
    => AllMarksDetected

\* exactly drawn marks of radius >= 2, one of them touching the canvas border, were searched
C7_Witness ==
  /\ marks.called
  /\ MarksDrawnExactly
  /\ \A i \in MarkIndices : ExpectedMark(i).r >= 2
  /\ \E i \in MarkIndices : ExpectedMark(i).x = ExpectedMark(i).r
  /\ AllMarksDetected

\* the offsets -20, -15, ..., 20
Window == {d \in (-20) .. 20 : d % 5 = 0}

\* the dark-disk scores over the search window of mark i
WindowScores(i) ==
  LET e == ExpectedMark(i)
  IN  {IsDarkCircle(image, e.x + dx, e.y + dy, e.r) : dx \in Window, dy \in Window}

ReportedDetected == {i \in DOMAIN marks.result.detected_marks :
                       marks.result.detected_marks[i].detected}

(* C8: a mark is reported detected exactly when some score over its search  *)
(* window (offsets -20..20 in steps of 5) is strictly greater than 0.7;     *)
(* success is reported exactly when at least 3 marks are detected;          *)
(* extract_answers records the number of detected marks as markers_detected *)
(* and the success value as rectification_applied.                          *)
C8_DetectedIffBestScoreAbove ==
  marks.called =>
    /\ DOMAIN marks.result.detected_marks = MarkIndices
    /\ \A i \in MarkIndices :
         (i \in ReportedDetected) <=> (\E sc \in WindowScores(i) : RLess(<<7, 10>>, sc))
    /\ marks.result.success <=> (Cardinality(ReportedDetected) >= 3)
    /\ scan.called
    /\ scan.rectification.markers_detected = Cardinality(ReportedDetected)
    /\ scan.rectification.rectification_applied = marks.result.success

\* three marks of four were detected, the fourth was not
C8_Witness ==
  /\ marks.called
  /\ Cardinality(MarkIndices) = 4
  /\ Cardinality(ReportedDetected) = 3
  /\ scan.rectification.rectification_applied

\* a mark whose best score is exactly 0.7 was searched
C8_WitnessAtThreshold ==
  /\ marks.called
  /\ \E i \in MarkIndices :
       /\ \E sc \in WindowScores(i) : REq(sc, <<7, 10>>)
       /\ \A sc \in WindowScores(i) : RLeq(sc, <<7, 10>>)

\* the question layout records extract_answers can read
Answerable(q) ==
  \/ q.type \in {"multiple_choice", "true_false"} /\ q.has_answer_fields
  \/ q.type \in {"short_answer", "essay"} /\ q.has_ocr_region

AnswerableIndices == {i \in DOMAIN layout.questions : Answerable(layout.questions[i])}

\* the bubble of field f at its nominal layout position holds at least 30% dark pixels
NominalFilled(f) ==
  LET cx == MmToPixels(f.x_mm, layout.dpi)
      cy == MmToPixels(f.y_mm, layout.dpi)
      r == MmToPixels(f.radius_mm, layout.dpi)
      d == IF r - 2 >= 1 THEN r - 2 ELSE 1
      pixels == {p \in Cols \X Rows :
                   (p[1] - cx) * (p[1] - cx) + (p[2] - cy) * (p[2] - cy) <= d * d}
      dark == Cardinality({p \in pixels : image[p[2]][p[1]] < 128})
  IN  InCanvas(cx, cy) /\ pixels # {} /\ 10 * dark >= 3 * Cardinality(pixels)

\* the OCR region at its nominal layout position holds more than 5% ink
NominalWritten(region) ==
  LET ox == MmToPixels(region.x_mm, layout.dpi)
      oy == MmToPixels(region.y_mm, layout.dpi)
      ow == MmToPixels(region.width_mm, layout.dpi)
      oh == MmToPixels(region.height_mm, layout.dpi)
      pixels == {p \in Cols \X Rows :
                   ox <= p[1] /\ p[1] < ox + ow /\ oy <= p[2] /\ p[2] < oy + oh}
      ink == Cardinality({p \in pixels : image[p[2]][p[1]] < 200})
  IN  20 * ink > Cardinality(pixels)

FewMarksDetected == scan.called /\ scan.rectification.markers_detected < 3

(* C9: when fewer than 3 registration marks are detected (a layout without  *)
(* marks included) extract_answers still returns, records                   *)
(* rectification_applied = false, and gives every readable question the     *)
(* answer sampled at the nominal layout coordinates.                        *)
C9_PartialRectificationNotFatal ==
  FewMarksDetected =>
    /\ scan.rectification.rectification_applied = FALSE
    /\ Len(scan.answers) = Cardinality(AnswerableIndices)
    /\ \A i \in AnswerableIndices :
         LET q == layout.questions[i]
         IN  /\ AnswersOf(q.question_id) # {}
             /\ \A a \in AnswersOf(q.question_id) :
                  IF q.has_answer_fields
                  THEN IF a.extracted_answer = Null
                       THEN \A f \in Range(q.answer_fields) : ~NominalFilled(f)
                       ELSE \E f \in Range(q.answer_fields) :
                              f.label = a.extracted_answer /\ NominalFilled(f)
                  ELSE (a.extracted_answer = "") <=> ~NominalWritten(q.ocr_region)

\* a layout with four marks, fewer than 3 of them detected, and a bubble read as filled
C9_Witness ==
  /\ FewMarksDetected
  /\ scan.rectification.markers_expected = 4
  /\ \E a \in Range(scan.answers) : a.extracted_answer \in {"A", "B"}

\* a layout without marks whose answers were read
C9_WitnessNoMarks ==
  /\ FewMarksDetected
  /\ scan.rectification.markers_expected = 0
  /\ Len(scan.answers) = 2

(* C10 as stated: extract_answers returns exactly one answer record per     *)
(* question layout record, in layout order, each carrying the question id,  *)
(* number and type.                                                         *)
C10_OneAnswerPerQuestion ==
  scan.called =>
    /\ Len(scan.answers) = Len(layout.questions)
    /\ \A i \in DOMAIN scan.answers :
         /\ scan.answers[i].question_id = layout.questions[i].question_id
         /\ scan.answers[i].question_number = layout.questions[i].question_number
         /\ scan.answers[i].question_type = layout.questions[i].type

\* the index of the k-th readable question layout record
NthAnswerable(k) ==
  CHOOSE i \in AnswerableIndices : Cardinality({j \in AnswerableIndices : j <= i}) = k

(* C10 amended: extract_answers returns exactly one answer record per       *)
(* question layout record that is a choice question carrying answer_fields  *)
(* or a free-text question carrying an ocr_region, in layout order, each    *)
(* with the question id, number, type, an extracted value, a confidence in  *)
(* [0, 1] and the extraction method of its type; other records are skipped. *)
C10_OneAnswerPerReadableQuestion ==
  scan.called =>
    /\ Len(scan.answers) = Cardinality(AnswerableIndices)
    /\ \A k \in DOMAIN scan.answers :
         LET q == layout.questions[NthAnswerable(k)]
             a == scan.answers[k]
         IN  /\ a.question_id = q.question_id
             /\ a.question_number = q.question_number
             /\ a.question_type = q.type
             /\ a.confidence \in 0 .. 1000
             /\ IF q.has_answer_fields
                THEN /\ a.extraction_method = "bubble_detection"
                     /\ a.extracted_answer \in
                          {f.label : f \in Range(q.answer_fields)} \cup {Null}
                ELSE /\ a.extraction_method = "ocr_simulation"
                     /\ a.extracted_answer \in {"", "[OCR text detected]"}

\* a sheet with a choice question and a free-text question was read
C10_Witness ==
  /\ scan.called
  /\ gen.called
  /\ Len(scan.answers) = 2
  /\ scan.answers[1].question_type = "multiple_choice"
  /\ scan.answers[2].question_type = "short_answer"

\* a layout with a record that cannot be read
C10_WitnessSkipped ==
  /\ scan.called
  /\ Len(scan.answers) = 1
  /\ Len(layout.questions) = 2

\* the loaded canvas has the dimensions and the pixels of the canvas in memory
SameAsCanvas(img) ==
  /\ DOMAIN img = Rows
  /\ \A y \in Rows :
       /\ DOMAIN img[y] = Cols
       /\ \A x \in Cols : img[y][x] = image[y][x]

(* C11: save_compact followed by load_image reproduces the canvas exactly:  *)
(* every pixel below 255 is restored with its value at the same row and     *)
(* column, and every other pixel is 255.                                    *)
C11_SparseRoundTrip ==
  (loaded.called /\ file.by = "save_compact") =>
    /\ loaded.ok
    /\ SameAsCanvas(loaded.image)

\* a synthesized sheet with a light grey patch drawn over it was saved and loaded
C11_Witness ==
  /\ loaded.called
  /\ file.by = "save_compact"
  /\ gen.called
  /\ \E y \in Rows, x \in Cols : image[y][x] = 254
  /\ \E y \in Rows, x \in Cols : image[y][x] = 0
  /\ loaded.ok

(* C12: the millimetre-to-pixel conversion of the synthesizer and of the    *)
(* extractor returns floor(m * d / 25.4) for every length m and every       *)
(* resolution d > 0; 25.4 mm at 300 dpi gives 300, 10 mm at 300 dpi 118.    *)
C12_MmToPixelsIsFloor ==
  conv.called =>
    /\ conv.result = (conv.mm * conv.dpi) \div 2540
    /\ (conv.mm = 2540 /\ conv.dpi = 300) => conv.result = 300
    /\ (conv.mm = 1000 /\ conv.dpi = 300) => conv.result = 118

----------------------------------------------------------------------------
\* C13: runs are reproducible from the seed: for every integer seed passed
\* to the synthesis command, two runs with the same inputs and parameters
\* produce the same image pixel for pixel.
C13_SeededRunsReproducible ==
  \A r1 \in runs, r2 \in runs :
    (/\ r1.seed.given
     /\ r1.seed = r2.seed
     /\ r1.rotation = r2.rotation
     /\ r1.skew = r2.skew
     /\ r1.noise = r2.noise) => r1.image = r2.image

----------------------------------------------------------------------------
\* the container is not supported or the content cannot be parsed
Unreadable(f) ==
  \/ f.suffix \notin {".json", ".pgm"}
  \/ f.suffix = ".pgm" /\ f.magic # "P2"
  \/ ~f.parsable

\* C14: scan_image given a file whose suffix is neither .json nor .pgm, a
\* .pgm file whose magic token is not P2, or a file whose content cannot be
\* parsed fails with an error before any registration-mark or bubble
\* detection runs, and returns no scan result.
C14_UnreadableFileStopsScan ==
  (stage = "scanned" /\ Unreadable(file.data)) =>
    /\ ~loaded.ok
    /\ loaded.error # ""
    /\ ~marks.called
    /\ ~bubble.called
    /\ ~scan.called

\* scan_image was called on a file named .png
C14_Witness ==
  /\ stage = "scanned"
  /\ file.data.suffix = ".png"
  /\ ~loaded.ok

\* scan_image was called on a .pgm file that starts with P5
C14_WitnessMagic ==
  /\ stage = "scanned"
  /\ file.data.suffix = ".pgm"
  /\ file.data.magic = "P5"
  /\ ~loaded.ok

\* scan_image was called on a .json file that is no JSON document
C14_WitnessContent ==
  /\ stage = "scanned"
  /\ file.data.suffix = ".json"
  /\ ~file.data.parsable
  /\ ~loaded.ok

----------------------------------------------------------------------------
\* the triple names a column outside [0, width) or a row outside [0, height)
OutOfRange(t, f) == ~(0 <= t[1] /\ t[1] < f.width /\ 0 <= t[2] /\ t[2] < f.height)

\* C15: load_image on a sparse file that contains a pixel triple whose x is
\* outside [0, width) or whose y is outside [0, height) fails with an error;
\* the triple is never applied to a pixel of a returned canvas.
C15_OutOfRangeTripleRejected ==
  (/\ loaded.called
   /\ file.data.suffix = ".json"
   /\ file.data.parsable
   /\ \E i \in DOMAIN file.data.pixels : OutOfRange(file.data.pixels[i], file.data)) =>
    /\ ~loaded.ok
    /\ loaded.error # ""

----------------------------------------------------------------------------
\* the pixel lies inside the shape the last drawing call names: the disk of
\* the circle, the box of the rectangle with its far edges for the outline
InsideCalledShape(px, py) ==
  CASE call.op = "draw_circle" ->
         (px - call.x) * (px - call.x) + (py - call.y) * (py - call.y) <= call.w * call.w
    [] call.op = "draw_rectangle" ->
         /\ call.x <= px /\ px <= call.x + call.w
         /\ call.y <= py /\ py <= call.y + call.h
         /\ (px \in {call.x, call.x + call.w} \/ py \in {call.y, call.y + call.h})
    [] call.op = "fill_rectangle" ->
         /\ call.x <= px /\ px < call.x + call.w
         /\ call.y <= py /\ py < call.y + call.h

\* some pixel of the called shape lies off the canvas
CalledShapeLeavesCanvas ==
  \E px \in (0 - 12) .. (Width + 12), py \in (0 - 12) .. (Height + 12) :
    InsideCalledShape(px, py) /\ ~InCanvas(px, py)

\* C16: drawing clips per pixel: whatever the position and size, draw_circle,
\* draw_rectangle and fill_rectangle complete, keep the canvas dimensions,
\* write only pixels inside both the shape and the canvas, giving them the
\* value drawn, and leave every other pixel unchanged.
C16_DrawingClipsPerPixel ==
  call.called =>
    /\ DOMAIN image = Rows
    /\ \A py \in Rows :
         /\ DOMAIN image[py] = Cols
         /\ \A px \in Cols :
              \/ image[py][px] = call.before[py][px]
              \/ InsideCalledShape(px, py) /\ image[py][px] = call.value

\* a shape that crosses the edge of a synthesized sheet was drawn: part of it
\* was written, and marks of the sheet outside it are still there
C16_Witness ==
  /\ call.called
  /\ gen.called
  /\ CalledShapeLeavesCanvas
  /\ \E py \in Rows, px \in Cols : image[py][px] # call.before[py][px]
  /\ \E py \in Rows, px \in Cols :
       ~InsideCalledShape(px, py) /\ image[py][px] < White

\* a shape wholly off the canvas was drawn
C16_WitnessOutside ==
  /\ call.called
  /\ gen.called
  /\ \A py \in Rows, px \in Cols : ~InsideCalledShape(px, py)
  /\ CalledShapeLeavesCanvas

----------------------------------------------------------------------------
\* confidences are thousandths: the count of answers below 0.7 and the total
\* number of flags, each counted over the answer records of the result
LowConfidence == {i \in 1 .. Len(scan.answers) : scan.answers[i].confidence < 700}

\* every flag of every answer, as <<answer, position>>
AllFlags ==
  UNION {{<<i, j>> : j \in 1 .. Len(scan.answers[i].flags)} : i \in 1 .. Len(scan.answers)}

CountsAsStated ==
  /\ scan.quality_metrics.low_confidence_count = Cardinality(LowConfidence)
  /\ scan.quality_metrics.flags_count = Cardinality(AllFlags)

\* C17: in the result of extract_answers, overall_confidence equals the mean
\* of the answers' confidences (0.0 when there are no answers),
\* low_confidence_count the number of answers with confidence < 0.7, and
\* flags_count the total number of flags over all answers.
C17_MetricsAreMeanAndCounts ==
  scan.called =>
    /\ scan.quality_metrics.overall_confidence * Len(scan.answers)
         = SumConfidence(scan.answers, 1)
    /\ CountsAsStated

\* C17, amended: overall_confidence is the mean of the answers' confidences
\* rounded to three decimals, so within 0.0005 of the mean (0.0 when there
\* are no answers); the two counts are as stated.
C17_MetricsAreRoundedMeanAndCounts ==
  scan.called =>
    /\ 2 * Abs(scan.quality_metrics.overall_confidence * Len(scan.answers)
                 - SumConfidence(scan.answers, 1)) <= Len(scan.answers)
    /\ CountsAsStated

\* two answers whose mean has a fourth decimal, one of them flagged and of
\* low confidence
C17_Witness ==
  /\ scan.called
  /\ Len(scan.answers) = 2
  /\ SumConfidence(scan.answers, 1) % 2 = 1
  /\ scan.quality_metrics.flags_count > 0
  /\ scan.quality_metrics.low_confidence_count = 1

\* a result without answers
C17_WitnessNoAnswers ==
  /\ scan.called
  /\ Len(scan.answers) = 0
  /\ scan.quality_metrics.overall_confidence = 0

----------------------------------------------------------------------------
\* free-text questions of the layout that carry an OCR region
FreeTextQuestions ==
  {layout.questions[i] : i \in {j \in DOMAIN layout.questions :
     /\ layout.questions[j].type \in {"short_answer", "essay"}
     /\ layout.questions[j].has_ocr_region}}

\* in-canvas pixels of the OCR rectangle of q on the canvas scan_image loaded
RegionOnScanned(q) ==
  LET ox == MmToPixels(q.ocr_region.x_mm, layout.dpi)
      oy == MmToPixels(q.ocr_region.y_mm, layout.dpi)
      ow == MmToPixels(q.ocr_region.width_mm, layout.dpi)
      oh == MmToPixels(q.ocr_region.height_mm, layout.dpi)
  IN  {p \in Cols \X Rows : ox <= p[1] /\ p[1] < ox + ow /\ oy <= p[2] /\ p[2] < oy + oh}

InkOnScanned(q) ==
  Cardinality({p \in RegionOnScanned(q) : loaded.image[p[2]][p[1]] < 200})

\* density > 0.05
DenseOnScanned(q) ==
  /\ RegionOnScanned(q) # {}
  /\ 20 * InkOnScanned(q) > Cardinality(RegionOnScanned(q))

\* 10 * total * min(0.85, density * 5) * 100
CappedDensity(q) ==
  LET total == Cardinality(RegionOnScanned(q))
  IN  IF 500 * InkOnScanned(q) < 85 * total THEN 5000 * InkOnScanned(q) ELSE 850 * total

AnswerTo(q) == CHOOSE a \in Range(scan.answers) : a.question_id = q.question_id

\* the answer to q is the placeholder, flagged, or the empty string with
\* confidence 0.90, as the density of its region commands
TextAnswerAsStated(q) ==
  /\ \E a \in Range(scan.answers) : a.question_id = q.question_id
  /\ IF DenseOnScanned(q)
     THEN /\ AnswerTo(q).extracted_answer = "[OCR text detected]"
          /\ AnswerTo(q).flags = <<"requires_manual_review">>
     ELSE /\ AnswerTo(q).extracted_answer = ""
          /\ AnswerTo(q).confidence = 900
          /\ AnswerTo(q).flags = <<>>

\* C18: for a free-text question, extract_answers computes density, the
\* fraction of in-canvas pixels of the OCR rectangle with intensity < 200;
\* if density > 0.05 it emits the placeholder text with confidence
\* min(0.85, density * 5) and the flag requires_manual_review, otherwise the
\* empty string with confidence 0.90 and no flag.
C18_TextAnswerFromDensity ==
  (stage = "scanned" /\ scan.called) =>
    \A q \in FreeTextQuestions :
      /\ TextAnswerAsStated(q)
      /\ (DenseOnScanned(q) =>
            AnswerTo(q).confidence * Cardinality(RegionOnScanned(q)) = CappedDensity(q))

\* C18, amended: the confidence of the placeholder is min(0.85, density * 5)
\* rounded to three decimals, so within 0.0005 of it; the rest is as stated.
C18_TextAnswerFromRoundedDensity ==
  (stage = "scanned" /\ scan.called) =>
    \A q \in FreeTextQuestions :
      /\ TextAnswerAsStated(q)
      /\ (DenseOnScanned(q) =>
            2 * Abs(AnswerTo(q).confidence * Cardinality(RegionOnScanned(q))
                      - CappedDensity(q)) <= Cardinality(RegionOnScanned(q)))

\* a page with four ink pixels in the region of the free-text question was
\* scanned: density 4/55, confidence below the cap
C18_Witness ==
  /\ stage = "scanned"
  /\ scan.called
  /\ \E q \in FreeTextQuestions :
       /\ DenseOnScanned(q)
       /\ InkOnScanned(q) = 4
       /\ AnswerTo(q).confidence < 850

\* a page with two ink pixels in the region: no writing is reported
C18_WitnessBlank ==
  /\ stage = "scanned"
  /\ scan.called
  /\ \E q \in FreeTextQuestions : InkOnScanned(q) = 2 /\ AnswerTo(q).extracted_answer = ""

\* a synthesized sheet with scribbles: the confidence is capped at 0.85
C18_WitnessCapped ==
  /\ stage = "scanned"
  /\ scan.called
  /\ gen.called
  /\ \E q \in FreeTextQuestions : AnswerTo(q).confidence = 850

----------------------------------------------------------------------------
\* C19: sub-epsilon distortions are the identity: apply_distortions with
\* |rotation| < 0.1 degrees, |skew| < 0.001 and noise level 0 returns a
\* canvas equal pixel for pixel to its input.
C19_SubEpsilonDistortionIsIdentity ==
  (/\ distort.called
   /\ 0 - 10 < distort.rotation /\ distort.rotation < 10
   /\ 0 - 10 < distort.skew /\ distort.skew < 10
   /\ distort.noise_level = 0) =>
    /\ DOMAIN image = Rows
    /\ \A y \in Rows :
         /\ DOMAIN image[y] = Cols
         /\ \A x \in Cols : image[y][x] = distort.before[y][x]

\* a synthesized sheet went through apply_distortions with a rotation of
\* 0.05 degrees and a skew of 0.0005
C19_Witness ==
  /\ distort.called
  /\ gen.called
  /\ distort.rotation \in {5, 0 - 5}
  /\ distort.skew \in {5, 0 - 5}
  /\ distort.noise_level = 0
  /\ \E y \in Rows, x \in Cols : image[y][x] < White

----------------------------------------------------------------------------
\* round(mm * dpi / 25.4), mm in hundredths
RoundedPixels(mm, dpi) == (2 * mm * dpi + 2540) \div 5080

\* C20: the canvas synthesized for a template layout has the dimensions
\* derived from the layout's page size and resolution:
\* width = round(width_mm * dpi / 25.4), height = round(height_mm * dpi / 25.4).
C20_CanvasFromPageSize ==
  \A r \in runs :
    /\ DOMAIN r.image = 0 .. (RoundedPixels(layout.height_mm, layout.dpi) - 1)
    /\ \A y \in DOMAIN r.image :
         DOMAIN r.image[y] = 0 .. (RoundedPixels(layout.width_mm, layout.dpi) - 1)

----------------------------------------------------------------------------
\* layout questions that the version's question list holds
OrderedQuestions ==
  {layout.questions[i] : i \in {j \in DOMAIN layout.questions :
     scan.known /\ layout.questions[j].question_id \in DOMAIN order}}

OneAnswerPerOrderedQuestion ==
  /\ Len(scan.answers) = Cardinality(OrderedQuestions)
  /\ \A q \in OrderedQuestions :
       Cardinality({i \in DOMAIN scan.answers :
                      scan.answers[i].question_id = q.question_id}) = 1

\* C21: with accuracy = 1.0, scan_synthetic returns one answer for every
\* layout question that appears in the chosen version's question order, and
\* every returned answer's extracted_answer equals that question's
\* correct_answer, whatever the question type.
C21_PerfectAccuracyAllCorrect ==
  (stage = "synthetic" /\ scan.accuracy = 1000) =>
    /\ OneAnswerPerOrderedQuestion
    /\ \A i \in DOMAIN scan.answers :
         scan.answers[i].extracted_answer = order[scan.answers[i].question_id]

\* C21, amended: the extracted answer equals the correct answer for choice
\* and short_answer questions; a question of any other type (essay) gets the
\* placeholder "[OCR text would be here]" with confidence 0.0 and the flag
\* manual_review_required.
C21_PerfectAccuracyCorrectOrPlaceholder ==
  (stage = "synthetic" /\ scan.accuracy = 1000) =>
    /\ OneAnswerPerOrderedQuestion
    /\ \A i \in DOMAIN scan.answers :
         IF scan.answers[i].question_type \in
              {"multiple_choice", "true_false", "short_answer"}
         THEN scan.answers[i].extracted_answer = order[scan.answers[i].question_id]
         ELSE /\ scan.answers[i].extracted_answer = "[OCR text would be here]"
              /\ scan.answers[i].confidence = 0
              /\ scan.answers[i].flags = <<"manual_review_required">>

\* perfect accuracy on a layout with a choice question and a short answer,
\* both in the question order
C21_Witness ==
  /\ stage = "synthetic"
  /\ scan.accuracy = 1000
  /\ Len(scan.answers) = 2
  /\ scan.answers[1].question_type = "multiple_choice"
  /\ scan.answers[2].question_type = "short_answer"

\* perfect accuracy on a layout one of whose questions the order leaves out
C21_WitnessLeftOut ==
  /\ stage = "synthetic"
  /\ scan.accuracy = 1000
  /\ Len(scan.answers) = 1
  /\ Len(layout.questions) = 2

----------------------------------------------------------------------------
\* the grade the grading bands give to a percentage in [0, 100]
BandGrade(percentage) ==
  IF RLeq(<<90, 1>>, percentage) THEN "A"
  ELSE IF RLeq(<<80, 1>>, percentage) THEN "B"
  ELSE IF RLeq(<<70, 1>>, percentage) THEN "C"
  ELSE IF RLeq(<<60, 1>>, percentage) THEN "D"
  ELSE "F"

\* C22: letter grades follow the grading bands for every percentage p in
\* [0, 100]: A for p >= 90, B for 80 <= p < 90, C for 70 <= p < 80, D for
\* 60 <= p < 70 and F for p < 60.
C22_GradeFollowsBands ==
  graded.called => graded.letter_grade = BandGrade(graded.percentage)

----------------------------------------------------------------------------
\* round(n / d) for d > 0, halves to the even neighbour
RoundDiv(n, d) ==
  LET m == IF n >= 0 THEN n ELSE 0 - n
      k == m \div d
      r == IF 2 * (m % d) > d \/ (2 * (m % d) = d /\ k % 2 = 1) THEN k + 1 ELSE k
  IN  IF n >= 0 THEN r ELSE 0 - r

\* C23: skew by k is a horizontal shear that keeps the canvas size: every
\* destination pixel (x, y) takes the value of source pixel
\* (x - round(k * (y - height / 2)), y) when that column is inside the
\* canvas and is white (255) otherwise.
C23_SkewShearsByRoundedShift ==
  (/\ distort.called
   /\ ~RotationApplies(distort.rotation)
   /\ SkewApplies(distort.skew)
   /\ distort.noise_level = 0) =>
    /\ DOMAIN image = Rows
    /\ \A y \in Rows :
         /\ DOMAIN image[y] = Cols
         /\ \A x \in Cols :
              LET src_x == x - RoundDiv(distort.skew * (2 * y - Height), 2 * SkewScale)
              IN  image[y][x] = IF src_x \in Cols THEN distort.before[y][src_x] ELSE White

----------------------------------------------------------------------------
\* the answer fields of the choice questions of the layout, with their question
ChoiceFields ==
  UNION {{<<layout.questions[i], layout.questions[i].answer_fields[k]>> :
            k \in DOMAIN layout.questions[i].answer_fields} :
         i \in {j \in DOMAIN layout.questions : layout.questions[j].has_answer_fields}}

\* squared distance of pixel p from the centre of field f
FieldDistance(p, f) ==
  LET fx == GenMmToPixels(f.x_mm)
      fy == GenMmToPixels(f.y_mm)
  IN  (p[1] - fx) * (p[1] - fx) + (p[2] - fy) * (p[2] - fy)

\* the field is drawn as an outline only: a black ring two pixels wide
\* around a white interior
DrawnEmpty(f) ==
  LET r == GenMmToPixels(f.radius_mm)
  IN  \A p \in Cols \X Rows :
        /\ ((r - 2) * (r - 2) <= FieldDistance(p, f) /\ FieldDistance(p, f) <= r * r)
             => image[p[2]][p[1]] = 0
        /\ FieldDistance(p, f) < (r - 2) * (r - 2) => image[p[2]][p[1]] = White

\* the field is drawn and filled: intensity 50 within radius r - 1, the
\* rest of the outline black
DrawnFilled(f) ==
  LET r == GenMmToPixels(f.radius_mm)
  IN  \A p \in Cols \X Rows :
        /\ FieldDistance(p, f) <= (r - 1) * (r - 1) => image[p[2]][p[1]] = 50
        /\ ((r - 1) * (r - 1) < FieldDistance(p, f) /\ FieldDistance(p, f) <= r * r)
             => image[p[2]][p[1]] = 0

\* C24: for each choice question the synthesizer draws every answer field
\* as an outline and fills (intensity 50, radius reduced by 1) exactly the
\* one field whose label equals the answer-map entry for that question;
\* when the question has no entry, or the entry matches no field label, no
\* field is filled.
C24_ExactlyTheAnsweredFieldFilled ==
  gen.called =>
    \A qf \in ChoiceFields :
      IF qf[1].question_id \in DOMAIN gen.answers
         /\ gen.answers[qf[1].question_id] = qf[2].label
      THEN DrawnFilled(qf[2])
      ELSE DrawnEmpty(qf[2])

\* a sheet of two choice questions: one answered with the label of its
\* second field, the other with a label that none of its fields carries
C24_Witness ==
  /\ gen.called
  /\ Cardinality(ChoiceFields) = 4
  /\ \E qf \in ChoiceFields :
       /\ qf[1].question_id \in DOMAIN gen.answers
       /\ gen.answers[qf[1].question_id] = "B"
       /\ qf[2].label = "B"
       /\ DrawnFilled(qf[2])
  /\ \E qf \in ChoiceFields :
       /\ qf[1].question_id \in DOMAIN gen.answers
       /\ gen.answers[qf[1].question_id] \in {"C", "Wrong Answer"}

\* a sheet with a choice question that has no entry in the answer map
C24_WitnessNoEntry ==
  /\ gen.called
  /\ \E qf \in ChoiceFields : qf[1].question_id \notin DOMAIN gen.answers

----------------------------------------------------------------------------
\* C25: noise in a synthesized image is governed by the caller-supplied
\* noise level: when the synthesis command runs with noise level 0 (and
\* rotation 0, skew 0), no pixel is perturbed, i.e. the saved image contains
\* only the drawn intensities 0, 50, 80 and 255.
C25_NoiseLevelZeroPerturbsNothing ==
  \A r \in runs :
    (r.noise = 0 /\ r.rotation = 0 /\ r.skew = 0) =>
      \A y \in Rows, x \in Cols : r.image[y][x] \in {0, 50, 80, 255}

----------------------------------------------------------------------------
\* C26: registration marks survive the end-to-end pipeline: for the template
\* layout produced by docgen at the generator's resolution (four marks at
\* the same distance from the page corners), an undistorted image
\* synthesized on the default canvas yields on extraction
\* markers_detected = 4 and rectification_applied = true.
C26_TemplateMarksSurvive ==
  (/\ scan.called
   /\ gen.called
   /\ ~gen.add_noise
   /\ layout.dpi = GeneratorDpi
   /\ layout.registration_marks = TemplateMarks(layout.width_mm, layout.height_mm)) =>
    /\ scan.rectification.markers_detected = 4
    /\ scan.rectification.rectification_applied

----------------------------------------------------------------------------
\* the pixel at which generate_test_image draws the centre of field f
DrawnCentre(f) == <<GenMmToPixels(f.x_mm), GenMmToPixels(f.y_mm)>>

\* the pixel at which extract_answers samples field f
SampledCentre(f) == <<MmToPixels(f.x_mm, layout.dpi), MmToPixels(f.y_mm, layout.dpi)>>

\* C27: synthesizer and extractor agree on geometry for every layout dpi:
\* for any page_info.dpi of the template layout and any field position, the
\* pixel at which generate_test_image draws the field centre is the pixel at
\* which extract_answers samples it.
C27_DrawnCentreIsSampledCentre ==
  (gen.called /\ scan.called) =>
    \A qf \in ChoiceFields : DrawnCentre(qf[2]) = SampledCentre(qf[2])

----------------------------------------------------------------------------
\* the pixels of the answer fields and OCR regions of the layout, at their
\* nominal coordinates
NominalPixels ==
  UNION {LET f == qf[2]
         IN  DiskPixels(MmToPixels(f.x_mm, layout.dpi), MmToPixels(f.y_mm, layout.dpi),
                        MmToPixels(f.radius_mm, layout.dpi)) : qf \in ChoiceFields}
  \cup UNION {LET r == q.ocr_region
              IN  OcrPixels(MmToPixels(r.x_mm, layout.dpi), MmToPixels(r.y_mm, layout.dpi),
                            MmToPixels(r.width_mm, layout.dpi),
                            MmToPixels(r.height_mm, layout.dpi)) :
              q \in {t \in Range(layout.questions) : t.has_ocr_region}}

\* the scanned image with everything outside the fields and regions erased
OutsideErased ==
  LET keep == NominalPixels
  IN  [y \in Rows |-> [x \in Cols |-> IF <<x, y>> \in keep THEN image[y][x] ELSE White]]

C28_WitnessThree ==
  /\ scan.called /\ stage = "done"
  /\ scan.rectification.markers_detected = 3
  /\ scan.answers # <<>>

\* a mark found away from its expected position
C28_WitnessOffset ==
  /\ scan.called /\ stage = "done"
  /\ \E m \in Range(marks.result.detected_marks) :
       m.detected /\ <<m.detected_x, m.detected_y>> # <<m.expected_x, m.expected_y>>
  /\ \E a \in Range(scan.answers) : a.extracted_answer # Null

\* no mark found
C28_WitnessNone ==
  /\ scan.called /\ stage = "done"
  /\ Len(layout.registration_marks) = 4
  /\ scan.rectification.markers_detected = 0
  /\ \E a \in Range(scan.answers) : a.extracted_answer = "A"

----------------------------------------------------------------------------
\* the choice questions of the layout with the answer record of each
ChoiceAnswers ==
  {<<q, a>> \in Range(layout.questions) \X Range(scan.answers) :
     /\ ScannedChoice(q)
     /\ a.question_id = q.question_id
     /\ a.extraction_method = "bubble_detection"}

FirstFilled(q) == CHOOSE k \in FilledFields(q) : \A j \in FilledFields(q) : k <= j

FlaggedChoiceAnswers ==
  {i \in DOMAIN scan.answers :
     scan.answers[i].extraction_method = "bubble_detection" /\ scan.answers[i].flags # <<>>}

C29_WitnessPartlyDark ==
  /\ scan.called /\ stage = "done"
  /\ \E qa \in ChoiceAnswers :
       \E k \in FilledFields(qa[1]) :
         LET f == qa[1].answer_fields[k]
             pixels == SampledPixels(MmToPixels(f.x_mm, layout.dpi),
                                     MmToPixels(f.y_mm, layout.dpi),
                                     MmToPixels(f.radius_mm, layout.dpi))
         IN  DarkCount(image, pixels) < Cardinality(pixels)

\* exactly one field filled, no field filled
C29_WitnessOneAndNone ==
  /\ scan.called /\ stage = "done"
  /\ \E qa \in ChoiceAnswers : Cardinality(FilledFields(qa[1])) = 1 /\ qa[2].confidence = 990
  /\ \E qa \in ChoiceAnswers : FilledFields(qa[1]) = {} /\ qa[2].confidence = 0

----------------------------------------------------------------------------
\* the free-text questions of the layout with the answer record of each
TextAnswers ==
  {<<q, a>> \in Range(layout.questions) \X Range(scan.answers) :
     /\ q.type \in TextTypes /\ q.has_ocr_region
     /\ a.question_id = q.question_id
     /\ a.extraction_method = "ocr_simulation"}

\* C30: free-text presence survives the round trip: for a free-text question
\* an undistorted synthesized image yields on extraction the placeholder
\* text with flag requires_manual_review when the answer map has an entry
\* for the question, and the empty string with confidence 0.90 and no flag
\* when it has none.
C30_FreeTextPresenceSurvives ==
  (/\ scan.called /\ stage = "done"
   /\ gen.called /\ ~gen.add_noise /\ draws = 0
   /\ layout.dpi = GeneratorDpi) =>
    \A qa \in TextAnswers :
      IF qa[1].question_id \in DOMAIN gen.answers
      THEN /\ qa[2].extracted_answer = "[OCR text detected]"
           /\ qa[2].flags = <<"requires_manual_review">>
      ELSE /\ qa[2].extracted_answer = ""
           /\ qa[2].confidence = 900
           /\ qa[2].flags = <<>>

====
